---------------------------- MODULE Spec2Model ----------------------------
(***************************************************************************)
(* Model of the client-side traffic-resilience subsystem of                *)
(* dormoron/phantasm: the circuit breaker (middleware/circuitbreaker), the  *)
(* three rate limiters (token bucket, sliding window, GCRA) and the        *)
(* middlewares built on them, Retry, the Selector with its balancers, and  *)
(* Chain.  Each component has its own specification over the same          *)
(* variables; the components outside a specification stay idle in it.      *)
(*                                                                         *)
(* Breaker: every goroutine that calls Breaker.Execute is a caller with a  *)
(* program counter.  A step of a caller is one critical section of the     *)
(* code (one acquisition of cb.mutex) or one unlocked read, so the         *)
(* interleavings of the model are the interleavings the lock allows.  The  *)
(* goroutine changeState starts for the observer is a step of its own.     *)
(*                                                                         *)
(* RoundRobin.Pick and IPRateLimiter.Allow are modelled the same way: one  *)
(* step per atomic operation or lock acquisition of each goroutine.        *)
(***************************************************************************)
EXTENDS Integers, Sequences, FiniteSets, TLC

(* ------------------------------ bounds --------------------------------- *)
NumCallers == 2
MaxTime == 2
MaxCalls == 4
MaxThreshold == 2
MaxMaxRequests == 2
MaxTimeout == 2
MaxLimiterCalls == 5
MaxAdvances == 2
MaxCapacity == 2
MaxWindowRate == 2
MaxBurst == 3
MaxAttempts == 3
MaxNodes == 2
MaxFilters == 1
MaxUpdates == 1
MaxSelects == 1
MaxWeighted == 3
WeightBits == 3
MaxChain == 3
MaxLimitCalls == 3
NumPickers == 2
MaxPicks == 3
MaxRRUpdates == 1
CounterBits == 3
MaxIPCalls == 3

Callers == 1..NumCallers

(* ------------------------- breaker: constants -------------------------- *)
StateClosed == "CLOSED"
StateOpen == "OPEN"
StateHalfOpen == "HALF_OPEN"

\* time.Time{} (the value of lastFailure before the first failure)
ZeroTime == -1
\* time.Since saturates at the largest Duration for the zero time
MaxDuration == 1000000

\* what a handler may return: (resp, err)
Outcomes ==
    { [resp |-> "r", err |-> "nil"],
      [resp |-> "nil", err |-> "e"],
      [resp |-> "r", err |-> "e"] }

\* errors.ServiceUnavailable("CIRCUIT_OPEN", ...)
CircuitOpen == [resp |-> "nil", err |-> "CIRCUIT_OPEN"]
NoResult == [resp |-> "nil", err |-> "none"]

VARIABLES
    state, failures, successes, lastFailure,   \* Breaker fields
    spawned,                                   \* the goroutines started by changeState: from, to, calls of the callback made
    threshold, timeout, maxRequests,           \* Breaker options
    onStateChange,                             \* Breaker option: "nil", or "set" when a callback is given
    now,                                       \* the clock read by time.Now
    pc, hres, res,                             \* per caller: position, handler outcome, Execute result
    inv, regS, regF,                           \* per caller: handler invocations / outcomes registered in this Execute
    calls,                                     \* number of Execute calls started
    consec,                                    \* failures registered while Closed since the last success
    epAdmits,                                  \* AllowRequest = true returns in the current half-open episode
    epSucc,                                    \* successes registered in the current half-open episode
    freshFails                                 \* k if the history is k failed Execute calls and nothing else, else -1

VARIABLES
    tbRate, capacity, buckets, tbLastClean,     \* TokenBucketLimiter: rate, capacity, buckets, lastClean
    swRate, window, windows, swLastClean,       \* SlidingWindowLimiter: rate, window, windows, lastClean
    gcraRate, burst, limiters, gcraLastClean,   \* GCRALimiter: rate, burst, limiters, lastClean
    hist,                                       \* per key: the Allow calls made so far, [at, allowed, info, panic]
    advances                                    \* number of clock jumps taken

cbvars == <<state, failures, successes, lastFailure, spawned>>
optvars == <<threshold, timeout, maxRequests, onStateChange>>
callvars == <<pc, hres, res, inv, regS, regF, calls>>
ghostvars == <<consec, epAdmits, epSucc, freshFails>>
breakervars == <<cbvars, optvars, callvars, ghostvars>>
tbvars == <<tbRate, capacity, buckets, tbLastClean>>
swvars == <<swRate, window, windows, swLastClean>>
gcravars == <<gcraRate, burst, limiters, gcraLastClean>>
limvars == <<tbvars, swvars, gcravars, hist, advances>>

\* Retry (middleware/retry): the options, the locals of the loop, the
\* context and the timer of the wait; outs, waits, cancelAt, cancelInv and
\* retAt are history (every handler result, every delay waited for, the
\* instant of the cancellation, the invocations made before a cancellation
\* that hit a wait, the instant of the return)
VARIABLES
    attempts, baseDelay, backoff, maxDelay, retryIf,
    attempt, delay, rpc, ctxDone, timerAt, retryRes,
    outs, waits, cancelAt, cancelInv, retAt

retryopts == <<attempts, baseDelay, backoff, maxDelay, retryIf>>
retryvars == <<retryopts, attempt, delay, rpc, ctxDone, timerAt, retryRes,
               outs, waits, cancelAt, cancelInv, retAt>>
\* Selector (selector): s.nodes as the slice header it is (the array it
\* points to and its length, two separate words), s.opts.filters (the nodes
\* each filter keeps, and whether it builds its result in the slice it was
\* given, as `out := nodes[:0]` does, or in a new one), the
\* goroutine inside Update (upc, uarg, ufield) and the goroutine inside
\* Select (spc, snap, sfield, selRes); cur, updates, selects, picked, seen and
\* quiet are history (the list of the last Update that returned, the number
\* of calls, whether the balancer was invoked by the last Select, the
\* complete lists the candidate set held during the last Select, and whether
\* no Update overlapped it)
VARIABLES
    nodes, filters, inplace, upc, uarg, ufield, cur, updates,
    spc, snap, sfield, selRes, picked, seen, quiet, selects

updvars == <<upc, uarg, ufield, cur, updates>>
callselvars == <<spc, snap, sfield, selRes, picked, seen, quiet, selects>>
selvars == <<nodes, filters, inplace, updvars, callselvars>>
\* WeightedRandom.Pick as a function of its input: the weights of the nodes
\* it is given, the value nextRandom drew, the index of the node it returned
\* (0 before the call)
VARIABLES wnodes, wdraw, wpick

wrvars == <<wnodes, wdraw, wpick>>
\* Chain (middleware): the middlewares given to Chain, the handler Chain
\* returned (the middlewares it goes through, outermost first, before the
\* wrapped handler), and one call of that handler: how many middlewares
\* have been entered and not left, what has run so far (trace), what the
\* wrapped handler returned (hout) and what is being returned (chRes)
VARIABLES mws, composed, cpc, depth, trace, hout, chRes

chainvars == <<mws, composed, cpc, depth, trace, hout, chRes>>
\* the limiter middlewares, tracing.Limit and ratelimit.RateLimit: which of
\* the two is built, its failure handler, and one call at a time of the
\* handler it returned: where it is (lpc), the key, what Allow returned
\* (lAllowed), how often the wrapped handler was invoked by the call
\* (lInvoked) and with what result (lhout), what the call returned (lRes),
\* and the number of calls
VARIABLES limitKind, failureHandler, lpc, lkey, lAllowed, lInvoked, lhout, lRes, lcalls

limitvars == <<limitKind, failureHandler, lpc, lkey, lAllowed, lInvoked, lhout, lRes, lcalls>>
\* RoundRobin (selector): the shared counter, and the goroutines inside
\* Pick (rrpc, the list each was given, the value Add returned to each, what
\* each returned); rrLists, rrLog, rrPos and rrStarted are history (every
\* list the callers were given so far, the Picks in the order of their Add
\* with what each returned, the place of each goroutine's Pick in that
\* order, the number of Picks started)
VARIABLES rrCounter, rrLists, rrpc, rrArg, rrCount, rrRes, rrLog, rrPos, rrStarted

rrvars == <<rrCounter, rrLists, rrpc, rrArg, rrCount, rrRes, rrLog, rrPos, rrStarted>>
\* IPRateLimiter (ratelimit): rate and capacity, the map from client IP to
\* its TokenBucket (an index into ipBuckets, 0 for no entry), every
\* TokenBucket ever made (tokens, lastTokens, and who holds its mu), who
\* holds the limiter's mu, and the goroutines inside Allow (ippc, the IP of
\* each, the bucket each was handed, what each returned); ipLog and
\* ipStarted are history (per IP the calls in the order in which they ran
\* TokenBucket.Allow, with the clock each read, the answer and the bucket;
\* the number of calls started)
VARIABLES ipRate, ipCapacity, ipLimiters, ipBuckets, ipMu, ippc, ipArg, ipRef, ipRes, ipLog, ipStarted

ipvars == <<ipRate, ipCapacity, ipLimiters, ipBuckets, ipMu, ippc, ipArg, ipRef, ipRes, ipLog, ipStarted>>
extvars == <<retryvars, selvars, wrvars, chainvars, limitvars, rrvars, ipvars>>

\* what the actions of one component leave alone
retryrest == <<breakervars, limvars, selvars, wrvars, chainvars, limitvars, rrvars, ipvars>>
selrest == <<breakervars, limvars, retryvars, wrvars, chainvars, limitvars, rrvars, ipvars>>
wrrest == <<breakervars, limvars, retryvars, selvars, chainvars, limitvars, rrvars, ipvars>>
chainrest == <<breakervars, limvars, retryvars, selvars, wrvars, limitvars, rrvars, ipvars>>
limitrest == <<breakervars, retryvars, selvars, wrvars, chainvars, rrvars, ipvars>>
rrrest == <<breakervars, limvars, retryvars, selvars, wrvars, chainvars, limitvars, ipvars>>
iprest == <<breakervars, limvars, retryvars, selvars, wrvars, chainvars, limitvars, rrvars>>
vars == <<breakervars, now, limvars, extvars>>

(* ------------------------- breaker: operators -------------------------- *)
\* the Breaker's mutable record; started collects the goroutines that the
\* operation under way starts
cb == [state |-> state, failures |-> failures,
       successes |-> successes, lastFailure |-> lastFailure, started |-> <<>>]

\* time.Since(t) at clock value n
Since(t, n) == IF t = ZeroTime THEN MaxDuration ELSE n - t

\* variant: the callback is given the new state twice
Notify_noFrom(from, to) ==
    IF onStateChange = "nil" THEN <<>>
    ELSE <<[from |-> to, to |-> to, runs |-> 0]>>

\* if cb.onStateChange != nil { go cb.onStateChange(cb.name, from, to) }
Notify(from, to) ==
    IF onStateChange = "nil" THEN <<>>
    ELSE <<[from |-> from, to |-> to, runs |-> 0]>>

\* changeState: from := cb.state; cb.state = to; the callback in a goroutine
changeState(b, to) ==
    [b EXCEPT !.state = to, !.started = @ \o Notify(b.state, to)]

\* variant: the open period must be strictly exceeded
TimeoutElapsed_strict(lf, n, t) == Since(lf, n) > t

\* the open-state test of AllowRequest: openDuration >= cb.timeout
TimeoutElapsed(lf, n, t) == Since(lf, n) >= t

\* variant: no call is admitted while HalfOpen
HalfOpenAllows_never(s, m) == FALSE

\* the half-open test of AllowRequest: cb.successes < cb.maxRequests
HalfOpenAllows(s, m) == s < m

\* the locked section of AllowRequest that moves Open to HalfOpen
ToHalfOpen(b) ==
    IF b.state = StateOpen
    THEN [changeState(b, StateHalfOpen) EXCEPT !.successes = 0]
    ELSE b

\* variant: successes are counted in every state
RegisterSuccess_countAlways(b, m) ==
    LET b1 == [b EXCEPT !.successes = b.successes + 1]
    IN IF b.state = StateHalfOpen /\ b1.successes >= m
       THEN [changeState(b1, StateClosed) EXCEPT !.failures = 0, !.successes = 0]
       ELSE b1

\* variant: closing the breaker forgets to clear the failure count
RegisterSuccess_keepFailures(b, m) ==
    IF b.state = StateHalfOpen
    THEN LET b1 == [b EXCEPT !.successes = b.successes + 1]
         IN IF b1.successes >= m
            THEN [changeState(b1, StateClosed) EXCEPT !.successes = 0]
            ELSE b1
    ELSE b

\* RegisterSuccess, under cb.mutex
RegisterSuccess(b, m) ==
    IF b.state = StateHalfOpen
    THEN LET b1 == [b EXCEPT !.successes = b.successes + 1]
         IN IF b1.successes >= m
            THEN [changeState(b1, StateClosed) EXCEPT !.failures = 0, !.successes = 0]
            ELSE b1
    ELSE b

\* variant: the threshold must be exceeded, not reached
RegisterFailure_exceed(b, th, n) ==
    LET b1 == [b EXCEPT !.failures = b.failures + 1, !.lastFailure = n]
        b2 == IF b1.state = StateClosed /\ b1.failures > th
              THEN changeState(b1, StateOpen)
              ELSE b1
    IN IF b2.state = StateHalfOpen
       THEN [changeState(b2, StateOpen) EXCEPT !.successes = 0]
       ELSE b2

\* variant: reopening from half-open keeps the success count
RegisterFailure_keepSuccesses(b, th, n) ==
    LET b1 == [b EXCEPT !.failures = b.failures + 1, !.lastFailure = n]
        b2 == IF b1.state = StateClosed /\ b1.failures >= th
              THEN changeState(b1, StateOpen)
              ELSE b1
    IN IF b2.state = StateHalfOpen
       THEN changeState(b2, StateOpen)
       ELSE b2

\* RegisterFailure, under cb.mutex, at clock value n
RegisterFailure(b, th, n) ==
    LET b1 == [b EXCEPT !.failures = b.failures + 1, !.lastFailure = n]
        b2 == IF b1.state = StateClosed /\ b1.failures >= th
              THEN changeState(b1, StateOpen)
              ELSE b1
    IN IF b2.state = StateHalfOpen
       THEN [changeState(b2, StateOpen) EXCEPT !.successes = 0]
       ELSE b2

\* variant: a call counts as failed when it produced no response
IsFailure_noResponse(o) == o.resp = "nil"

\* the outcome Execute registers for a handler result
IsFailure(o) == o.err # "nil"

SetBreaker(b) ==
    /\ state' = b.state
    /\ failures' = b.failures
    /\ successes' = b.successes
    /\ lastFailure' = b.lastFailure
    /\ spawned' = spawned \o b.started

\* bookkeeping of the half-open episode when the breaker goes from b to b2
\* and the step returns AllowRequest = true iff admitted
EpisodeAdmits(b, b2, admitted) ==
    IF b2.state # StateHalfOpen THEN 0
    ELSE (IF b.state = StateHalfOpen THEN epAdmits ELSE 0) + (IF admitted THEN 1 ELSE 0)

(* --------------------------- breaker: Init ----------------------------- *)
\* NewBreaker, with the options drawn from small ranges
InitBreaker ==
    /\ state = StateClosed
    /\ failures = 0
    /\ successes = 0
    /\ lastFailure = ZeroTime
    /\ spawned = <<>>
    /\ threshold \in 1..MaxThreshold
    /\ timeout \in 1..MaxTimeout
    /\ maxRequests \in 1..MaxMaxRequests
    /\ pc = [p \in Callers |-> "idle"]
    /\ hres = [p \in Callers |-> NoResult]
    /\ res = [p \in Callers |-> NoResult]
    /\ inv = [p \in Callers |-> 0]
    /\ regS = [p \in Callers |-> 0]
    /\ regF = [p \in Callers |-> 0]
    /\ calls = 0
    /\ consec = 0
    /\ epAdmits = 0
    /\ epSucc = 0
    /\ freshFails = 0

(* ------------------------ limiters: constants -------------------------- *)
\* the distinguishing keys of the calls
Keys == {"a", "b"}

\* One clock tick is half a millisecond: the clock is fine enough for a
\* period of 1/2000 s and coarse enough to reach the 30 minute sweep.
Millisecond == 2
Second == 1000 * Millisecond
Minute == 60 * Second
Hour == 60 * Minute

\* cleanupInt: time.Minute * 10
cleanupInt == 10 * Minute

\* inactiveThreshold := now.Add(-30 * time.Minute)
inactiveThreshold(n) == n - 30 * Minute

\* the configurations explored
TokenRates == {10, 2000}
Windows == {10 * Second, Hour}

\* The rate of a GCRALimiter is a float64; the model writes it in requests
\* per hour, so that a rate below one request per second can be written.
PerSecond(r) == r * 3600
GCRARates == {1, PerSecond(10), PerSecond(2000)}

(* ------------------------ limiters: operators -------------------------- *)
minFloat64(a, b) == IF a < b THEN a ELSE b
maxTime(a, b) == IF a > b THEN a ELSE b
maxInt(a, b) == IF a > b THEN a ELSE b
minInt(a, b) == IF a < b THEN a ELSE b

\* Go's integer division truncates toward zero
TruncDiv(a, b) == IF a >= 0 THEN a \div b ELSE -((-a) \div b)

\* Duration.Milliseconds()
Milliseconds(d) == TruncDiv(d, Millisecond)

\* m[key] = v on a map
Put(m, key, v) == [j \in (DOMAIN m) \cup {key} |-> IF j = key THEN v ELSE m[j]]

EmptyMap == [j \in {} |-> 0]

\* cleanup(now): delete every entry whose lastUpdate is before the threshold
cleanup(m, n) ==
    [j \in {i \in DOMAIN m : ~(m[i].lastUpdate < inactiveThreshold(n))} |-> m[j]]

\* the periodic sweep at the head of every Allow
Sweep(m, lc, n) ==
    IF n - lc > cleanupInt
    THEN [entries |-> cleanup(m, n), lastClean |-> n]
    ELSE [entries |-> m, lastClean |-> lc]

\* variant: the refill is not capped
Refill_uncapped(tok, elapsed, rate, cap) == tok + elapsed * rate

\* Token counts are kept in units of 1/Second token, so that elapsed * rate
\* is exact for a whole rate: tokens are tok / Second.
\* minFloat64(l.capacity, b.tokens + elapsed*l.rate); an elapsed time of cap
\* ticks already fills the bucket (rate >= 1), which keeps the product small.
Refill(tok, elapsed, rate, cap) ==
    IF elapsed >= cap THEN cap ELSE minFloat64(cap, tok + elapsed * rate)

\* variant: a token is handed out only when more than one is there
HasToken_strict(tok) == tok > Second

\* b.tokens >= 1
HasToken(tok) == tok >= Second

\* int((1 - b.tokens) / l.rate * 1000)
WaitTime(tok, rate) == ((Second - tok) * 1000) \div (rate * Second)

\* TokenBucketLimiter.Allow(key) at clock value n
TokenBucketAllow(m, lc, key, n, rate, cap) ==
    LET sw == Sweep(m, lc, n)
        m1 == sw.entries
        b0 == IF key \in DOMAIN m1 THEN m1[key]
              ELSE [tokens |-> cap, lastUpdate |-> n]
        tok == Refill(b0.tokens, n - b0.lastUpdate, rate, cap)
        ok == HasToken(tok)
        tok2 == IF ok THEN tok - Second ELSE tok
    IN [entries |-> Put(m1, key, [tokens |-> tok2, lastUpdate |-> n]),
        lastClean |-> sw.lastClean,
        ret |-> [at |-> n, allowed |-> ok, panic |-> FALSE,
                 info |-> IF ok THEN tok2 \div Second ELSE WaitTime(tok2, rate)]]

\* the pruning loop of SlidingWindowLimiter.Allow: the index (from 0) of the
\* first timestamp >= cutoff, and 0 when the loop finds none
ValidIdx(ts, cutoff) ==
    LET S == {i \in 1..Len(ts) : ts[i] >= cutoff}
    IN IF S = {} THEN 0 ELSE (CHOOSE i \in S : \A j \in S : i <= j) - 1

\* if validIdx > 0 { w.timestamps = w.timestamps[validIdx:] }
Prune(ts, cutoff) ==
    IF ValidIdx(ts, cutoff) > 0
    THEN SubSeq(ts, ValidIdx(ts, cutoff) + 1, Len(ts))
    ELSE ts

\* SlidingWindowLimiter.Allow(key) at clock value n
SlidingWindowAllow(m, lc, key, n, rate, win) ==
    LET sw == Sweep(m, lc, n)
        m1 == sw.entries
        w0 == IF key \in DOMAIN m1 THEN m1[key]
              ELSE [count |-> 0, timestamps |-> <<>>, lastUpdate |-> n]
        cutoff == n - win
        ts == Prune(w0.timestamps, cutoff)
        cnt == Len(ts)
    IN IF cnt < rate
       THEN [entries |-> Put(m1, key, [count |-> cnt + 1, timestamps |-> Append(ts, n), lastUpdate |-> n]),
             lastClean |-> sw.lastClean,
             ret |-> [at |-> n, allowed |-> TRUE, panic |-> FALSE, info |-> rate - (cnt + 1)]]
       ELSE [entries |-> Put(m1, key, [count |-> cnt, timestamps |-> ts, lastUpdate |-> n]),
             lastClean |-> sw.lastClean,
             \* w.timestamps[0] of an empty slice faults
             ret |-> IF cnt = 0
                     THEN [at |-> n, allowed |-> FALSE, panic |-> TRUE, info |-> 0]
                     ELSE [at |-> n, allowed |-> FALSE, panic |-> FALSE,
                           info |-> Milliseconds(ts[1] - cutoff)]]

\* increment := time.Duration(float64(time.Second) / l.rate)
Increment(rate) == Hour \div rate

\* GCRALimiter.Allow(key) at clock value n
GCRAAllow(m, lc, key, n, rate, bst) ==
    LET sw == Sweep(m, lc, n)
        m1 == sw.entries
        increment == Increment(rate)
        d0 == IF key \in DOMAIN m1 THEN m1[key]
              ELSE [tau |-> n - bst * increment, lastUpdate |-> n]
        tau1 == maxTime(d0.tau + increment, n)
    IN IF d0.tau > n
       THEN [entries |-> Put(m1, key, d0),
             lastClean |-> sw.lastClean,
             ret |-> [at |-> n, allowed |-> FALSE, panic |-> FALSE,
                      info |-> Milliseconds(d0.tau - n)]]
       ELSE [entries |-> Put(m1, key, [tau |-> tau1, lastUpdate |-> n]),
             lastClean |-> sw.lastClean,
             \* the division by increment.Milliseconds() faults when it is 0
             ret |-> IF Milliseconds(increment) = 0
                     THEN [at |-> n, allowed |-> FALSE, panic |-> TRUE, info |-> 0]
                     ELSE [at |-> n, allowed |-> TRUE, panic |-> FALSE,
                           info |-> maxInt(0, minInt(bst,
                                       TruncDiv(Milliseconds(n - tau1), Milliseconds(increment))))]]

\* the number of Allow calls made so far
TotalCalls == Len(hist["a"]) + Len(hist["b"])

\* a breaker that is not part of the run: NewBreaker, never called
NoBreaker ==
    /\ state = StateClosed /\ failures = 0 /\ successes = 0 /\ lastFailure = ZeroTime
    /\ spawned = <<>> /\ onStateChange = "nil"
    /\ threshold = 1 /\ timeout = 1 /\ maxRequests = 1
    /\ pc = [p \in Callers |-> "idle"]
    /\ hres = [p \in Callers |-> NoResult]
    /\ res = [p \in Callers |-> NoResult]
    /\ inv = [p \in Callers |-> 0]
    /\ regS = [p \in Callers |-> 0]
    /\ regF = [p \in Callers |-> 0]
    /\ calls = 0 /\ consec = 0 /\ epAdmits = 0 /\ epSucc = 0 /\ freshFails = 0

\* a limiter that is not part of the run
NoTokenBucket ==
    tbRate = 0 /\ capacity = 0 /\ buckets = EmptyMap /\ tbLastClean = 0
NoSlidingWindow ==
    swRate = 0 /\ window = 0 /\ windows = EmptyMap /\ swLastClean = 0
NoGCRA ==
    gcraRate = 0 /\ burst = 0 /\ limiters = EmptyMap /\ gcraLastClean = 0

\* a Retry middleware that is not part of the run
NoRetry ==
    /\ attempts = 0 /\ baseDelay = 0 /\ backoff = FALSE /\ maxDelay = 0
    /\ retryIf = "default" /\ attempt = 0 /\ delay = 0 /\ rpc = "done"
    /\ ctxDone = FALSE /\ timerAt = 0 /\ retryRes = NoResult
    /\ outs = <<>> /\ waits = <<>> /\ cancelAt = -1 /\ cancelInv = -1 /\ retAt = -1

\* Node{}, ErrNoAvailable
NoNode == ""
ErrNoAvailable == "no available node"
NoAvailable == [node |-> NoNode, err |-> ErrNoAvailable]

\* the header of a slice that holds the list l
Header(l) == [arr |-> l, len |-> Len(l)]

\* a Selector that is not part of the run: NewSelector, never called
NoSelector ==
    /\ nodes = Header(<<>>) /\ filters = <<>> /\ inplace = <<>>
    /\ upc = "idle" /\ uarg = <<>> /\ ufield = "none" /\ cur = <<>> /\ updates = 0
    /\ spc = "idle" /\ snap = Header(<<>>) /\ sfield = "none"
    /\ selRes = NoAvailable /\ picked = FALSE /\ seen = {} /\ quiet = TRUE
    /\ selects = 0

\* a WeightedRandom balancer that is not part of the run
NoWeightedRandom == wnodes = <<>> /\ wdraw = 0 /\ wpick = 0

\* a chain that is not part of the run
NoChain ==
    /\ mws = <<>> /\ composed = <<>> /\ cpc = "done" /\ depth = 0
    /\ trace = <<>> /\ hout = NoResult /\ chRes = NoResult

\* a limiter middleware that is not part of the run
NoLimit ==
    /\ limitKind = "Limit" /\ failureHandler = "default" /\ lpc = "idle"
    /\ lkey = "a" /\ lAllowed = FALSE /\ lInvoked = 0
    /\ lhout = NoResult /\ lRes = NoResult /\ lcalls = 0

\* the goroutines that call Pick
Pickers == 1..NumPickers

\* a RoundRobin balancer that is not part of the run: &RoundRobin{}, never called
NoRoundRobin ==
    /\ rrCounter = 0 /\ rrLists = <<>>
    /\ rrpc = [p \in Pickers |-> "idle"]
    /\ rrArg = [p \in Pickers |-> <<>>]
    /\ rrCount = [p \in Pickers |-> 0]
    /\ rrRes = [p \in Pickers |-> NoAvailable]
    /\ rrLog = <<>> /\ rrPos = [p \in Pickers |-> 0] /\ rrStarted = 0

\* the goroutines that call IPRateLimiter.Allow
IPCallers == 1..2

\* what getClientIP finds in the context: an address, or "" for none
ClientIPs == {"", "a", "b"}

\* an IPRateLimiter that is not part of the run
NoIPRateLimiter ==
    /\ ipRate = 0 /\ ipCapacity = 0
    /\ ipLimiters = [ip \in ClientIPs \ {""} |-> 0]
    /\ ipBuckets = <<>> /\ ipMu = 0
    /\ ippc = [c \in IPCallers |-> "idle"]
    /\ ipArg = [c \in IPCallers |-> ""]
    /\ ipRef = [c \in IPCallers |-> 0]
    /\ ipRes = [c \in IPCallers |-> TRUE]
    /\ ipLog = [ip \in ClientIPs \ {""} |-> <<>>]
    /\ ipStarted = 0

\* the components outside the breaker and the limiters, not part of the run
NoExt == NoRetry /\ NoSelector /\ NoWeightedRandom /\ NoChain /\ NoLimit /\ NoRoundRobin /\ NoIPRateLimiter

\* the breaker and the limiters, not part of the run
NoTraffic ==
    /\ NoBreaker
    /\ now = 0
    /\ NoTokenBucket /\ NoSlidingWindow /\ NoGCRA
    /\ hist = [k \in Keys |-> <<>>]
    /\ advances = 0

Init ==
    /\ InitBreaker
    /\ onStateChange = "nil"
    /\ NoExt
    /\ now = 0
    /\ NoTokenBucket /\ NoSlidingWindow /\ NoGCRA
    /\ hist = [k \in Keys |-> <<>>]
    /\ advances = 0

(* -------------------------- breaker: actions --------------------------- *)
\* Execute enters AllowRequest: state := cb.state under RLock, then the
\* branch on the copy.  Closed returns true at once.
ExecuteEnter(p) ==
    /\ pc[p] = "idle"
    /\ pc' = [pc EXCEPT ![p] =
                CASE state = StateClosed -> "handler"
                  [] state = StateOpen -> "checkTimeout"
                  [] OTHER -> "checkHalfOpen"]
    /\ res' = [res EXCEPT ![p] = NoResult]
    /\ hres' = [hres EXCEPT ![p] = NoResult]
    /\ inv' = [inv EXCEPT ![p] = 0]
    /\ regS' = [regS EXCEPT ![p] = 0]
    /\ regF' = [regF EXCEPT ![p] = 0]
    /\ epAdmits' = EpisodeAdmits(cb, cb, FALSE)
    /\ UNCHANGED <<extvars, limvars, cbvars, optvars, now, consec, epSucc, freshFails>>

\* a call of Execute, counted; the specification makes MaxCalls of them
ExecuteBegin(p) ==
    /\ calls < MaxCalls
    /\ calls' = calls + 1
    /\ ExecuteEnter(p)

\* AllowRequest, copy was Open: time.Since(cb.lastFailure) read without the
\* lock, compared with cb.timeout; false is returned when it has not elapsed
\* and Execute returns the CIRCUIT_OPEN error.
AllowRequestCheckTimeout(p) ==
    /\ pc[p] = "checkTimeout"
    /\ IF TimeoutElapsed(lastFailure, now, timeout)
       THEN /\ pc' = [pc EXCEPT ![p] = "toHalfOpen"]
            /\ res' = res
       ELSE /\ pc' = [pc EXCEPT ![p] = "idle"]
            /\ res' = [res EXCEPT ![p] = CircuitOpen]
    /\ UNCHANGED <<extvars, limvars, cbvars, optvars, now, hres, inv, regS, regF, calls, ghostvars>>

\* AllowRequest, timeout elapsed: Lock; if still Open, changeState(HalfOpen)
\* and successes = 0; Unlock; return true.
AllowRequestToHalfOpen(p) ==
    /\ pc[p] = "toHalfOpen"
    /\ SetBreaker(ToHalfOpen(cb))
    /\ pc' = [pc EXCEPT ![p] = "handler"]
    /\ epAdmits' = EpisodeAdmits(cb, ToHalfOpen(cb), TRUE)
    /\ epSucc' = IF cb.state = StateOpen THEN 0 ELSE epSucc
    /\ UNCHANGED <<extvars, limvars, optvars, now, hres, res, inv, regS, regF, calls, consec, freshFails>>

\* AllowRequest, copy was HalfOpen: return cb.successes < cb.maxRequests
\* under RLock.
AllowRequestCheckHalfOpen(p) ==
    /\ pc[p] = "checkHalfOpen"
    /\ IF HalfOpenAllows(successes, maxRequests)
       THEN /\ pc' = [pc EXCEPT ![p] = "handler"]
            /\ res' = res
            /\ epAdmits' = EpisodeAdmits(cb, cb, TRUE)
       ELSE /\ pc' = [pc EXCEPT ![p] = "idle"]
            /\ res' = [res EXCEPT ![p] = CircuitOpen]
            /\ epAdmits' = epAdmits
    /\ UNCHANGED <<extvars, limvars, cbvars, optvars, now, hres, inv, regS, regF, calls, consec, epSucc, freshFails>>

\* resp, err := handler(ctx, req)
InvokeHandler(p) ==
    /\ pc[p] = "handler"
    /\ \E o \in Outcomes : hres' = [hres EXCEPT ![p] = o]
    /\ inv' = [inv EXCEPT ![p] = inv[p] + 1]
    /\ pc' = [pc EXCEPT ![p] = "register"]
    /\ UNCHANGED <<extvars, limvars, cbvars, optvars, now, res, regS, regF, calls, ghostvars>>

\* Execute registers the outcome and returns resp, err
ExecuteRegister(p) ==
    /\ pc[p] = "register"
    /\ LET fail == IsFailure(hres[p])
           b2 == IF fail THEN RegisterFailure(cb, threshold, now)
                         ELSE RegisterSuccess(cb, maxRequests)
       IN /\ SetBreaker(b2)
          /\ regF' = [regF EXCEPT ![p] = regF[p] + (IF fail THEN 1 ELSE 0)]
          /\ regS' = [regS EXCEPT ![p] = regS[p] + (IF fail THEN 0 ELSE 1)]
          /\ consec' = IF fail
                       THEN (IF cb.state = StateClosed THEN consec + 1 ELSE consec)
                       ELSE 0
          /\ epSucc' = IF cb.state = StateHalfOpen /\ ~fail THEN epSucc + 1 ELSE epSucc
          /\ epAdmits' = EpisodeAdmits(cb, b2, FALSE)
          /\ freshFails' = IF fail /\ freshFails >= 0 THEN freshFails + 1 ELSE -1
    /\ res' = [res EXCEPT ![p] = hres[p]]
    /\ pc' = [pc EXCEPT ![p] = "idle"]
    /\ UNCHANGED <<extvars, limvars, optvars, now, hres, inv, calls>>

\* the clock advances
Tick ==
    /\ now < MaxTime
    /\ now' = now + 1
    /\ UNCHANGED <<extvars, limvars, cbvars, optvars, callvars, ghostvars>>

Next ==
    \/ \E p \in Callers : ExecuteBegin(p)
    \/ \E p \in Callers : AllowRequestCheckTimeout(p)
    \/ \E p \in Callers : AllowRequestToHalfOpen(p)
    \/ \E p \in Callers : AllowRequestCheckHalfOpen(p)
    \/ \E p \in Callers : InvokeHandler(p)
    \/ \E p \in Callers : ExecuteRegister(p)
    \/ Tick

Spec == Init /\ [][Next]_vars

(* ----------------------- breaker with an observer ---------------------- *)
\* NewBreaker(WithOnStateChange(fn), ...)
InitObserver ==
    /\ InitBreaker
    /\ onStateChange = "set"
    /\ NoExt
    /\ now = 0
    /\ NoTokenBucket /\ NoSlidingWindow /\ NoGCRA
    /\ hist = [k \in Keys |-> <<>>]
    /\ advances = 0

\* the goroutine started by changeState runs: cb.onStateChange(cb.name, from, to)
ObserverRun(i) ==
    /\ i \in 1..Len(spawned)
    /\ spawned[i].runs = 0
    /\ spawned' = [spawned EXCEPT ![i].runs = 1]
    /\ UNCHANGED <<extvars, limvars, state, failures, successes, lastFailure,
                   optvars, now, callvars, ghostvars>>

\* one goroutine calls Execute, call after call, while the goroutines
\* started by changeState run when they are scheduled
ObserverCallers == {1}

NextObserver ==
    \/ \E p \in ObserverCallers : ExecuteBegin(p)
    \/ \E p \in ObserverCallers : AllowRequestCheckTimeout(p)
    \/ \E p \in ObserverCallers : AllowRequestToHalfOpen(p)
    \/ \E p \in ObserverCallers : AllowRequestCheckHalfOpen(p)
    \/ \E p \in ObserverCallers : InvokeHandler(p)
    \/ \E p \in ObserverCallers : ExecuteRegister(p)
    \/ Tick
    \/ \E i \in 1..(2 * MaxCalls) : ObserverRun(i)

\* every goroutine that was started gets to run
SpecObserver ==
    InitObserver /\ [][NextObserver]_vars
    /\ WF_vars(\E i \in 1..(2 * MaxCalls) : ObserverRun(i))

(* ------------------------ breaker: the recovery ------------------------ *)
\* The breaker has just opened: the threshold-th failure in a row was
\* registered at time 0 and no call is under way.
InitRecover ==
    /\ threshold \in 1..MaxThreshold
    /\ timeout \in 1..MaxTimeout
    /\ maxRequests \in 1..MaxMaxRequests
    /\ onStateChange = "nil"
    /\ state = StateOpen
    /\ failures = threshold
    /\ successes = 0
    /\ lastFailure = 0
    /\ spawned = <<>>
    /\ pc = [p \in Callers |-> "idle"]
    /\ hres = [p \in Callers |-> NoResult]
    /\ res = [p \in Callers |-> NoResult]
    /\ inv = [p \in Callers |-> 0]
    /\ regS = [p \in Callers |-> 0]
    /\ regF = [p \in Callers |-> 0]
    /\ calls = threshold
    /\ consec = threshold
    /\ epAdmits = 0
    /\ epSucc = 0
    /\ freshFails = threshold
    /\ NoExt
    /\ now = 0
    /\ NoTokenBucket /\ NoSlidingWindow /\ NoGCRA
    /\ hist = [k \in Keys |-> <<>>]
    /\ advances = 0

\* calls keep arriving: one more call of Execute, whatever the number of
\* calls made before
ExecuteAgain(p) ==
    /\ calls' = calls
    /\ ExecuteEnter(p)

\* from now on the handler succeeds
HandlerSucceeds(p) ==
    /\ InvokeHandler(p)
    /\ ~IsFailure(hres'[p])

\* a step of the goroutine p inside Execute
RecoverStep(p) ==
    \/ ExecuteAgain(p)
    \/ AllowRequestCheckTimeout(p)
    \/ AllowRequestToHalfOpen(p)
    \/ AllowRequestCheckHalfOpen(p)
    \/ HandlerSucceeds(p)
    \/ ExecuteRegister(p)

NextRecover ==
    \/ \E p \in Callers : ExecuteAgain(p)
    \/ \E p \in Callers : AllowRequestCheckTimeout(p)
    \/ \E p \in Callers : AllowRequestToHalfOpen(p)
    \/ \E p \in Callers : AllowRequestCheckHalfOpen(p)
    \/ \E p \in Callers : HandlerSucceeds(p)
    \/ \E p \in Callers : ExecuteRegister(p)
    \/ Tick

\* time advances (the clock of the model stops at MaxTime, which is late
\* enough for every timeout once no failure is registered any more), and
\* the goroutines inside Execute go on
SpecRecover ==
    InitRecover /\ [][NextRecover]_vars
    /\ WF_vars(Tick)
    /\ WF_vars(\E p \in Callers : RecoverStep(p))

(* ------------------------- limiters: actions --------------------------- *)
\* the clock jumps by d ticks
Advance(d) ==
    /\ advances < MaxAdvances
    /\ advances' = advances + 1
    /\ now' = now + d
    /\ UNCHANGED <<extvars, breakervars, tbvars, swvars, gcravars, hist>>

\* NewTokenBucketLimiter(rate, capacity)
InitTokenBucket ==
    /\ NoBreaker
    /\ NoExt
    /\ now = 0
    /\ tbRate \in TokenRates
    /\ capacity \in 1..MaxCapacity
    /\ buckets = EmptyMap
    /\ tbLastClean = 0
    /\ NoSlidingWindow /\ NoGCRA
    /\ hist = [k \in Keys |-> <<>>]
    /\ advances = 0

\* a call of TokenBucketLimiter.Allow(key), the whole of it under l.mutex
TokenBucketAllowCall(key) ==
    /\ TotalCalls < MaxLimiterCalls
    /\ LET r == TokenBucketAllow(buckets, tbLastClean, key, now, tbRate, capacity * Second)
       IN /\ buckets' = r.entries
          /\ tbLastClean' = r.lastClean
          /\ hist' = [hist EXCEPT ![key] = Append(@, r.ret)]
    /\ UNCHANGED <<extvars, breakervars, now, tbRate, capacity, swvars, gcravars, advances>>

TokenBucketSteps == {1, Second \div tbRate, cleanupInt + 1, 30 * Minute + 1}

NextTokenBucket ==
    \/ \E key \in Keys : TokenBucketAllowCall(key)
    \/ \E d \in TokenBucketSteps : Advance(d)

SpecTokenBucket == InitTokenBucket /\ [][NextTokenBucket]_vars

\* NewSlidingWindowLimiter(rate, window)
InitSlidingWindow ==
    /\ NoBreaker
    /\ NoExt
    /\ now = 0
    /\ swRate \in 1..MaxWindowRate
    /\ window \in Windows
    /\ windows = EmptyMap
    /\ swLastClean = 0
    /\ NoTokenBucket /\ NoGCRA
    /\ hist = [k \in Keys |-> <<>>]
    /\ advances = 0

\* a call of SlidingWindowLimiter.Allow(key), the whole of it under l.mutex
SlidingWindowAllowCall(key) ==
    /\ TotalCalls < MaxLimiterCalls
    /\ LET r == SlidingWindowAllow(windows, swLastClean, key, now, swRate, window)
       IN /\ windows' = r.entries
          /\ swLastClean' = r.lastClean
          /\ hist' = [hist EXCEPT ![key] = Append(@, r.ret)]
    /\ UNCHANGED <<extvars, breakervars, now, swRate, window, tbvars, gcravars, advances>>

SlidingWindowSteps == {1, window, cleanupInt + 1, 30 * Minute + 1}

NextSlidingWindow ==
    \/ \E key \in Keys : SlidingWindowAllowCall(key)
    \/ \E d \in SlidingWindowSteps : Advance(d)

SpecSlidingWindow == InitSlidingWindow /\ [][NextSlidingWindow]_vars

\* NewGCRALimiter(rate, burst)
InitGCRA ==
    /\ NoBreaker
    /\ NoExt
    /\ now = 0
    /\ gcraRate \in GCRARates
    /\ burst \in 0..MaxBurst
    /\ limiters = EmptyMap
    /\ gcraLastClean = 0
    /\ NoTokenBucket /\ NoSlidingWindow
    /\ hist = [k \in Keys |-> <<>>]
    /\ advances = 0

\* a call of GCRALimiter.Allow(key), the whole of it under l.mutex
GCRAAllowCall(key) ==
    /\ TotalCalls < MaxLimiterCalls
    /\ LET r == GCRAAllow(limiters, gcraLastClean, key, now, gcraRate, burst)
       IN /\ limiters' = r.entries
          /\ gcraLastClean' = r.lastClean
          /\ hist' = [hist EXCEPT ![key] = Append(@, r.ret)]
    /\ UNCHANGED <<extvars, breakervars, now, gcraRate, burst, tbvars, swvars, advances>>

GCRASteps == {1, Increment(gcraRate), cleanupInt + 1, 20 * Minute, 30 * Minute + 1}

NextGCRA ==
    \/ \E key \in Keys : GCRAAllowCall(key)
    \/ \E d \in GCRASteps : Advance(d)

SpecGCRA == InitGCRA /\ [][NextGCRA]_vars

(* ======================= Retry (middleware/retry) ====================== *)
\* Retry's clock is the same clock; delays are given in ticks of 0.5 ms and
\* are multiples of 4 ticks, so that two multiplications by 1.5 are exact.
BaseDelays == {0, 4, 8}
MaxDelays == {5, 12}

\* what the wrapped handler can return: a response, an error that is not a
\* *errors.Error, the breaker's rejection (errors.ServiceUnavailable) and the
\* limiter's rejection (errors.TooManyRequests)
RateLimited == [resp |-> "nil", err |-> "RATE_LIMITED"]
RetryOutcomes ==
    { [resp |-> "ok", err |-> "nil"],
      [resp |-> "nil", err |-> "plain"],
      CircuitOpen,
      RateLimited }

\* ctx.Err() after the cancellation, returned with a nil response
ContextCanceled == [resp |-> "nil", err |-> "context canceled"]

\* err.(*errors.Error): the errors built by the errors package
IsFrameworkError(e) == e \in {"CIRCUIT_OPEN", "RATE_LIMITED"}

\* Error.Code: http.StatusServiceUnavailable, http.StatusTooManyRequests
Code(e) ==
    CASE e = "CIRCUIT_OPEN" -> 503
      [] e = "RATE_LIMITED" -> 429
      [] OTHER -> 0

\* defaultRetryIf: no retry without an error, no retry of a *errors.Error
\* whose code is in 400..499, a retry of everything else
defaultRetryIf(o) ==
    IF o.err = "nil" THEN FALSE
    ELSE IF IsFrameworkError(o.err) /\ Code(o.err) >= 400 /\ Code(o.err) < 500
         THEN FALSE
         ELSE TRUE

\* a predicate given with WithRetryIf that retries every error
retryEveryError(o) == o.err # "nil"

RetryIf_always(kind, o) == TRUE

\* options.retryIf(ctx, req, resp, err)
RetryIf(kind, o) == IF kind = "default" THEN defaultRetryIf(o) ELSE retryEveryError(o)

LastAttempt_early(a, n) == a >= n - 2

\* if attempt == options.attempts-1 { break }
LastAttempt(a, n) == a = n - 1

\* the delay of the wait that follows attempt a
NextDelay(d, a, bo, md) ==
    IF bo /\ a > 0
    THEN LET grown == TruncDiv(d * 3, 2)
         IN IF grown > md THEN md ELSE grown
    ELSE d

Select_timerOnly(ctxReady, timerReady) == IF timerReady THEN {"timer"} ELSE {}

\* select { case <-ctx.Done(): ...  case <-timer.C: }  -- the cases that can
\* be taken; with both ready the runtime picks either
Select(ctxReady, timerReady) ==
    (IF ctxReady THEN {"ctx"} ELSE {}) \cup (IF timerReady THEN {"timer"} ELSE {})

\* Retry(opts...), before the returned handler is called
InitRetry ==
    /\ NoTraffic
    /\ NoSelector /\ NoWeightedRandom /\ NoChain /\ NoLimit /\ NoRoundRobin /\ NoIPRateLimiter
    /\ attempts \in 0..MaxAttempts
    /\ baseDelay \in BaseDelays
    /\ backoff \in BOOLEAN
    /\ maxDelay \in MaxDelays
    /\ retryIf \in {"default", "every"}
    /\ attempt = 0 /\ delay = 0 /\ rpc = "start"
    /\ ctxDone = FALSE /\ timerAt = 0 /\ retryRes = NoResult
    /\ outs = <<>> /\ waits = <<>> /\ cancelAt = -1 /\ cancelInv = -1 /\ retAt = -1

\* the handler returned by Retry is called: delay = options.delay, and the
\* loop is entered when attempt < options.attempts; otherwise resp, err are
\* returned as they were declared
RetryBegin ==
    /\ rpc = "start"
    /\ attempt' = 0
    /\ delay' = baseDelay
    /\ IF 0 < attempts
       THEN /\ rpc' = "handler"
            /\ UNCHANGED <<retryRes, retAt>>
       ELSE /\ rpc' = "done"
            /\ retryRes' = [resp |-> "nil", err |-> "nil"]
            /\ retAt' = now
    /\ UNCHANGED <<retryrest, now, retryopts, ctxDone, timerAt,
                   outs, waits, cancelAt, cancelInv>>

\* one round of the loop up to the select: the handler is invoked, then
\* retryIf, the last-attempt test, the backoff and time.NewTimer(delay)
RetryInvoke ==
    /\ rpc = "handler"
    /\ \E o \in RetryOutcomes :
         /\ outs' = Append(outs, o)
         /\ IF ~RetryIf(retryIf, o) \/ LastAttempt(attempt, attempts)
            THEN /\ rpc' = "done"
                 /\ retryRes' = o
                 /\ retAt' = now
                 /\ UNCHANGED <<delay, timerAt, waits>>
            ELSE /\ delay' = NextDelay(delay, attempt, backoff, maxDelay)
                 /\ timerAt' = now + delay'
                 /\ waits' = Append(waits, delay')
                 /\ rpc' = "wait"
                 /\ UNCHANGED <<retryRes, retAt>>
    /\ UNCHANGED <<retryrest, now, retryopts, attempt, ctxDone,
                   cancelAt, cancelInv>>

\* the caller's context is canceled, by another goroutine
CtxCancel ==
    /\ rpc \in {"handler", "wait"}
    /\ ~ctxDone
    /\ ctxDone' = TRUE
    /\ cancelAt' = now
    /\ cancelInv' = IF rpc = "wait" /\ now < timerAt THEN Len(outs) ELSE -1
    /\ UNCHANGED <<retryrest, now, retryopts, attempt, delay, rpc,
                   timerAt, retryRes, outs, waits, retAt>>

\* time passes while Retry is blocked in the select: neither case is ready
WaitElapse(d) ==
    /\ rpc = "wait"
    /\ Select(ctxDone, now >= timerAt) = {}
    /\ d >= 1 /\ now + d <= timerAt
    /\ now' = now + d
    /\ UNCHANGED <<retryrest, retryvars>>

\* the select takes a ready case: ctx.Done() returns nil, ctx.Err(); timer.C
\* ends the round, attempt++ and the loop condition is tested
RetryWake ==
    /\ rpc = "wait"
    /\ \E c \in Select(ctxDone, now >= timerAt) :
         IF c = "ctx"
         THEN /\ rpc' = "done"
              /\ retryRes' = ContextCanceled
              /\ retAt' = now
              /\ UNCHANGED attempt
         ELSE /\ attempt' = attempt + 1
              /\ IF attempt + 1 < attempts
                 THEN /\ rpc' = "handler"
                      /\ UNCHANGED <<retryRes, retAt>>
                 ELSE /\ rpc' = "done"
                      /\ retryRes' = outs[Len(outs)]
                      /\ retAt' = now
    /\ UNCHANGED <<retryrest, now, retryopts, delay, ctxDone, timerAt,
                   outs, waits, cancelAt, cancelInv>>

NextRetry ==
    \/ RetryBegin
    \/ RetryInvoke
    \/ CtxCancel
    \/ \E d \in {1, timerAt - now} : WaitElapse(d)
    \/ RetryWake

SpecRetry == InitRetry /\ [][NextRetry]_vars

(* ========================= Selector (selector) ========================= *)
Nodes == {"n1", "n2"}

\* the lists Update can be given
RECURSIVE SeqsUpTo(_, _)
SeqsUpTo(S, n) ==
    IF n = 0 THEN {<<>>}
    ELSE LET shorter == SeqsUpTo(S, n - 1)
         IN shorter \cup {Append(l, x) : l \in {m \in shorter : Len(m) = n - 1}, x \in S}

NodeLists == SeqsUpTo(Nodes, MaxNodes)

\* a FilterFunc is given by the set of nodes it keeps: all, one, none
FilterSets == {Nodes, {"n1"}, {}}

\* what a read past the end of the array yields
Garbage == "?"

\* the header points to fewer elements than its length says
Corrupt(h) == h.len > Len(h.arr)

\* the elements seen through a header
View(h) == [i \in 1..h.len |-> IF i <= Len(h.arr) THEN h.arr[i] ELSE Garbage]

\* f(nodes) of a filter that keeps the nodes of keep
Filter(keep, l) == LET Kept(n) == n \in keep IN SelectSeq(l, Kept)

IsEmpty_never(l) == FALSE

\* len(nodes) == 0
IsEmpty(l) == Len(l) = 0

\* the filter loop of Select from filter i on: the list handed to the
\* balancer, or the empty list at which the loop returned ErrNoAvailable
RECURSIVE RunFilters(_, _, _)
RunFilters(fs, i, l) ==
    IF i > Len(fs) THEN l
    ELSE LET l2 == Filter(fs[i], l)
         IN IF IsEmpty(l2) THEN <<>> ELSE RunFilters(fs, i + 1, l2)

\* the array s.nodes points to after the filter loop of Select from filter
\* i on, when l is the slice the loop holds and it still starts at that
\* array: nodes = f(nodes) hands the filter the slice itself, so a filter
\* that builds its result in its argument writes the nodes it keeps to the
\* front of the array; a filter that returns a new slice takes the loop to
\* another array
RECURSIVE FilterWrites(_, _, _, _, _)
FilterWrites(fs, ip, i, l, arr) ==
    IF i > Len(fs) \/ ~ip[i] THEN arr
    ELSE LET l2 == Filter(fs[i], l)
             arr2 == [j \in 1..Len(arr) |-> IF j <= Len(l2) THEN l2[j] ELSE arr[j]]
         IN IF IsEmpty(l2) THEN arr2 ELSE FilterWrites(fs, ip, i + 1, l2, arr2)

\* Random.Pick: nodes[nextRandom(len(nodes))], every draw
RandomPick(l) ==
    IF Len(l) = 0 THEN {NoAvailable}
    ELSE {[node |-> l[i + 1], err |-> "nil"] : i \in 0..(Len(l) - 1)}

\* what Select can do with a header that points past its array: a fault, a
\* node made of whatever memory holds, or a filter that drops it
UndefinedOutcomes ==
    { [node |-> Garbage, err |-> "fault"],
      [node |-> Garbage, err |-> "nil"],
      NoAvailable }

\* Select after nodes := s.nodes, as a set of <<result, balancer invoked>>
SelectOutcomes(h, fs) ==
    IF IsEmpty(View(h)) THEN {<<NoAvailable, FALSE>>}
    ELSE IF Corrupt(h) THEN {<<r, b>> : r \in UndefinedOutcomes, b \in BOOLEAN}
    ELSE LET l == RunFilters(fs, 1, View(h))
         IN IF Len(fs) > 0 /\ IsEmpty(l) THEN {<<NoAvailable, FALSE>>}
            ELSE {<<r, TRUE>> : r \in RandomPick(l)}

\* NewSelector, then Apply(filters...)
InitSelector ==
    /\ NoTraffic
    /\ NoRetry /\ NoWeightedRandom /\ NoChain /\ NoLimit /\ NoRoundRobin /\ NoIPRateLimiter
    /\ nodes = Header(<<>>)
    /\ filters \in SeqsUpTo(FilterSets, MaxFilters)
    /\ inplace \in [1..Len(filters) -> BOOLEAN]
    /\ upc = "idle" /\ uarg = <<>> /\ ufield = "none" /\ cur = <<>> /\ updates = 0
    /\ spc = "idle" /\ snap = Header(<<>>) /\ sfield = "none"
    /\ selRes = NoAvailable /\ picked = FALSE /\ seen = {} /\ quiet = TRUE
    /\ selects = 0

\* a store of one word of the header
Store(h, f, l) == IF f = "arr" THEN [h EXCEPT !.arr = l] ELSE [h EXCEPT !.len = Len(l)]

\* a load of one word of the header
Load(local, f, h) == IF f = "arr" THEN [local EXCEPT !.arr = h.arr] ELSE [local EXCEPT !.len = h.len]

OtherField(f) == IF f = "arr" THEN "len" ELSE "arr"

\* Update(l): s.nodes = nodes is a store of each word of the header, with
\* no lock and no atomic; this is the first store
UpdateBegin(l, f) ==
    /\ upc = "idle"
    /\ updates < MaxUpdates
    /\ nodes' = Store(nodes, f, l)
    /\ upc' = "half" /\ uarg' = l /\ ufield' = OtherField(f)
    /\ seen' = IF spc = "loading" THEN seen \cup {l} ELSE seen
    /\ quiet' = IF spc = "loading" THEN FALSE ELSE quiet
    /\ UNCHANGED <<selrest, now, filters, inplace, cur, updates,
                   spc, snap, sfield, selRes, picked, selects>>

\* the second store, and Update returns
UpdateEnd ==
    /\ upc = "half"
    /\ nodes' = Store(nodes, ufield, uarg)
    /\ upc' = "idle" /\ ufield' = "none"
    /\ cur' = uarg
    /\ updates' = updates + 1
    /\ UNCHANGED <<selrest, now, filters, inplace, uarg, callselvars>>

\* Select: nodes := s.nodes is a load of each word of the header; this is
\* the first load
SelectBegin(f) ==
    /\ spc = "idle"
    /\ selects < MaxSelects
    /\ snap' = Load(Header(<<>>), f, nodes)
    /\ sfield' = OtherField(f)
    /\ spc' = "loading"
    /\ seen' = IF upc = "idle" THEN {cur} ELSE {cur, uarg}
    /\ quiet' = (upc = "idle")
    /\ UNCHANGED <<selrest, now, nodes, filters, inplace, updvars,
                   selRes, picked, selects>>

\* the second load and the rest of Select: the empty test, the filters,
\* the balancer
SelectEnd ==
    /\ spc = "loading"
    /\ LET h == Load(snap, sfield, nodes)
           written == FilterWrites(filters, inplace, 1, View(h), h.arr)
       IN /\ snap' = h
          /\ \E o \in SelectOutcomes(h, filters) :
               /\ selRes' = o[1]
               /\ picked' = o[2]
          \* the array the filters wrote to is the one s.nodes points to,
          \* unless an Update put another array there in the meantime
          /\ IF Corrupt(h) \/ h.arr # nodes.arr THEN nodes' = nodes
             ELSE IF quiet THEN nodes' = [nodes EXCEPT !.arr = written]
             ELSE nodes' \in {nodes, [nodes EXCEPT !.arr = written]}
    /\ spc' = "idle" /\ sfield' = "none"
    /\ selects' = selects + 1
    /\ UNCHANGED <<selrest, now, filters, inplace, updvars,
                   seen, quiet>>

NextSelector ==
    \/ \E l \in NodeLists, f \in {"arr", "len"} : UpdateBegin(l, f)
    \/ UpdateEnd
    \/ \E f \in {"arr", "len"} : SelectBegin(f)
    \/ SelectEnd

SpecSelector == InitSelector /\ [][NextSelector]_vars

(* =================== WeightedRandom.Pick (selector) ==================== *)
\* Node.Weight and totalWeight are int64; the model keeps the two's-complement
\* arithmetic and narrows the width to WeightBits bits, so that the sums can
\* be enumerated.
MinWeight == -(2 ^ (WeightBits - 1))
MaxWeight == 2 ^ (WeightBits - 1) - 1
Weights == MinWeight..MaxWeight

\* the value of an integer result in the width of the type
Wrap(x) == ((x - MinWeight) % (2 ^ WeightBits)) + MinWeight

\* nextRandom(n): 0 when n <= 0, else random.Int63n(n)
nextRandom(n) == IF n <= 0 THEN {0} ELSE 0..(n - 1)

\* the loop that sums the positive weights, from node i on
RECURSIVE SumPositive(_, _, _)
SumPositive(l, i, total) ==
    IF i > Len(l) THEN total
    ELSE SumPositive(l, i + 1, IF l[i] > 0 THEN Wrap(total + l[i]) ELSE total)

totalWeight(l) == SumPositive(l, 1, 0)

\* the loop that walks the nodes subtracting the positive weights from
\* offset, from node i on: the index of the node returned (nodes[0] after
\* the loop)
RECURSIVE Walk(_, _, _)
Walk(l, i, offset) ==
    IF i > Len(l) THEN 1
    ELSE IF l[i] > 0
         THEN IF Wrap(offset - l[i]) < 0 THEN i ELSE Walk(l, i + 1, Wrap(offset - l[i]))
         ELSE Walk(l, i + 1, offset)

\* if totalWeight <= 0 { uniform } else { weighted }
UsesWeights(total) == total > 0

\* WeightedRandom.Pick on a non-empty list, for the draw d: the index
\* (from 1) of the node returned
WeightedPickIndex(l, d) ==
    IF UsesWeights(totalWeight(l)) THEN Walk(l, 1, d) ELSE d + 1

\* the draws nextRandom can make in Pick
WeightedDraws(l) ==
    IF UsesWeights(totalWeight(l)) THEN nextRandom(totalWeight(l)) ELSE nextRandom(Len(l))

\* a list of nodes handed to the balancer
InitWeightedRandom ==
    /\ NoTraffic
    /\ NoRetry /\ NoSelector /\ NoChain /\ NoLimit /\ NoRoundRobin /\ NoIPRateLimiter
    /\ wnodes \in SeqsUpTo(Weights, MaxWeighted) \ {<<>>}
    /\ wdraw = 0
    /\ wpick = 0

\* Pick(ctx, nodes)
WeightedRandomPick ==
    /\ \E d \in WeightedDraws(wnodes) :
         /\ wdraw' = d
         /\ wpick' = WeightedPickIndex(wnodes, d)
    /\ UNCHANGED <<wrrest, now, wnodes>>

NextWeightedRandom == WeightedRandomPick

SpecWeightedRandom == InitWeightedRandom /\ [][NextWeightedRandom]_vars

(* ========================= Chain (middleware) ========================== *)
\* the middlewares of the tests: each records that it ran before the call
\* of next and after it, and returns what next returned
MiddlewareNames == {"m1", "m2", "m3"}

\* m(next): the handler that goes through m and then through next
Wrapped(m, next) == <<m>> \o next

Chain_forward(m, next) == [i \in 1..Len(m) |-> m[Len(m) + 1 - i]] \o next

\* Chain(m...)(next): for i := len(m) - 1; i >= 0; i-- { next = m[i](next) }
RECURSIVE ChainLoop(_, _, _)
ChainLoop(m, i, next) ==
    IF i < 1 THEN next ELSE ChainLoop(m, i - 1, Wrapped(m[i], next))

Chain(m, next) == ChainLoop(m, Len(m), next)

Forward_dropError(r) == [resp |-> r.resp, err |-> "nil"]

\* return resp, err  of a middleware that got resp, err from next
Forward(r) == r

\* the middlewares, before Chain is called
InitChain ==
    /\ NoTraffic
    /\ NoRetry /\ NoSelector /\ NoWeightedRandom /\ NoLimit /\ NoRoundRobin /\ NoIPRateLimiter
    /\ mws \in SeqsUpTo(MiddlewareNames, MaxChain)
    /\ composed = <<>> /\ cpc = "build" /\ depth = 0
    /\ trace = <<>> /\ hout = NoResult /\ chRes = NoResult

\* Chain(m...)(handler), and the call of the handler it returned
ChainCall ==
    /\ cpc = "build"
    /\ composed' = Chain(mws, <<>>)
    /\ cpc' = "down"
    /\ UNCHANGED <<chainrest, now, mws, depth, trace, hout, chRes>>

\* a middleware up to its call of next
MiddlewareBefore ==
    /\ cpc = "down"
    /\ depth < Len(composed)
    /\ trace' = Append(trace, <<"before", composed[depth + 1]>>)
    /\ depth' = depth + 1
    /\ UNCHANGED <<chainrest, now, mws, composed, cpc, hout, chRes>>

\* the wrapped handler
HandlerCall ==
    /\ cpc = "down"
    /\ depth = Len(composed)
    /\ \E o \in Outcomes :
         /\ hout' = o
         /\ chRes' = o
    /\ trace' = Append(trace, <<"handler", "h">>)
    /\ cpc' = IF depth = 0 THEN "done" ELSE "up"
    /\ UNCHANGED <<chainrest, now, mws, composed, depth>>

\* a middleware from the return of next on
MiddlewareAfter ==
    /\ cpc = "up"
    /\ trace' = Append(trace, <<"after", composed[depth]>>)
    /\ chRes' = Forward(chRes)
    /\ depth' = depth - 1
    /\ cpc' = IF depth = 1 THEN "done" ELSE "up"
    /\ UNCHANGED <<chainrest, now, mws, composed, hout>>

NextChain ==
    \/ ChainCall
    \/ MiddlewareBefore
    \/ HandlerCall
    \/ MiddlewareAfter

SpecChain == InitChain /\ [][NextChain]_vars

(* ============ limiter middlewares (tracing.Limit, RateLimit) =========== *)
\* WithFailureHandler: the default handler, or one that answers in place of
\* the wrapped handler
FailureHandlers == {"default", "custom"}

\* errors.TooManyRequests("RATELIMIT", ...) of RateLimit
RateLimitDenied == [resp |-> "nil", err |-> "RATELIMIT"]

\* options.failureHandler(ctx, req)
FailureResult(fh) ==
    IF fh = "default" THEN RateLimited ELSE [resp |-> "fallback", err |-> "nil"]

Denied_never(allowed) == FALSE

\* if !allowed { ... }
Denied(allowed) == ~allowed

\* Limit(opts...) with the default limiter's kind, a token bucket, or
\* RateLimit(opts...) with a Limiter whose Allow(ctx) answers true or false
\* with a nil error, as every Limiter of the package does
InitLimit ==
    /\ NoBreaker
    /\ now = 0
    /\ tbRate \in TokenRates
    /\ capacity \in 1..MaxCapacity
    /\ buckets = EmptyMap
    /\ tbLastClean = 0
    /\ NoSlidingWindow /\ NoGCRA
    /\ hist = [k \in Keys |-> <<>>]
    /\ advances = 0
    /\ NoRetry /\ NoSelector /\ NoWeightedRandom /\ NoChain /\ NoRoundRobin /\ NoIPRateLimiter
    /\ limitKind \in {"Limit", "RateLimit"}
    /\ failureHandler \in (IF limitKind = "Limit" THEN FailureHandlers ELSE {"default"})
    /\ lpc = "idle"
    /\ lkey = "a" /\ lAllowed = FALSE /\ lInvoked = 0
    /\ lhout = NoResult /\ lRes = NoResult /\ lcalls = 0

\* the handler returned by Limit, up to its return or its call of the
\* wrapped handler: key := keyFunc(ctx); allowed, remaining := Allow(key)
LimitCall(key) ==
    /\ limitKind = "Limit"
    /\ lpc = "idle"
    /\ lcalls < MaxLimitCalls
    /\ LET r == TokenBucketAllow(buckets, tbLastClean, key, now, tbRate, capacity * Second)
       IN /\ buckets' = r.entries
          /\ tbLastClean' = r.lastClean
          /\ hist' = [hist EXCEPT ![key] = Append(@, r.ret)]
          /\ lAllowed' = r.ret.allowed
          /\ IF Denied(r.ret.allowed)
             THEN /\ lRes' = FailureResult(failureHandler)
                  /\ lpc' = "idle"
             ELSE /\ lRes' = NoResult
                  /\ lpc' = "handler"
    /\ lkey' = key
    /\ lInvoked' = 0
    /\ lhout' = NoResult
    /\ lcalls' = lcalls + 1
    /\ UNCHANGED <<limitrest, now, tbRate, capacity, swvars, gcravars, advances,
                   limitKind, failureHandler>>

\* the handler returned by RateLimit, up to its return or its call of the
\* wrapped handler: allowed, err := limiter.Allow(ctx)
RateLimitCall(allowed) ==
    /\ limitKind = "RateLimit"
    /\ lpc = "idle"
    /\ lcalls < MaxLimitCalls
    /\ lAllowed' = allowed
    /\ IF Denied(allowed)
       THEN /\ lRes' = RateLimitDenied
            /\ lpc' = "idle"
       ELSE /\ lRes' = NoResult
            /\ lpc' = "handler"
    /\ lInvoked' = 0
    /\ lhout' = NoResult
    /\ lcalls' = lcalls + 1
    /\ UNCHANGED <<limitrest, now, limvars, limitKind, failureHandler, lkey>>

\* return handler(ctx, req)
LimitInvokeHandler ==
    /\ lpc = "handler"
    /\ \E o \in Outcomes :
         /\ lhout' = o
         /\ lRes' = o
    /\ lInvoked' = lInvoked + 1
    /\ lpc' = "idle"
    /\ UNCHANGED <<limitrest, now, limvars, limitKind, failureHandler, lkey,
                   lAllowed, lcalls>>

NextLimit ==
    \/ \E key \in Keys : LimitCall(key)
    \/ \E allowed \in BOOLEAN : RateLimitCall(allowed)
    \/ LimitInvokeHandler
    \/ \E d \in TokenBucketSteps : Advance(d)

SpecLimit == InitLimit /\ [][NextLimit]_vars

(* ------------------- limiters: the quota that is left ------------------ *)
\* the limiter of the run
ActiveLimiter ==
    CASE tbRate # 0 -> "TokenBucket"
      [] swRate # 0 -> "SlidingWindow"
      [] gcraRate # 0 -> "GCRA"
      [] OTHER -> "none"

\* Allow(key) of the limiter of the run, on the entries m at the instant n
AllowOf(m, lc, key, n) ==
    CASE ActiveLimiter = "TokenBucket" -> TokenBucketAllow(m, lc, key, n, tbRate, capacity * Second)
      [] ActiveLimiter = "SlidingWindow" -> SlidingWindowAllow(m, lc, key, n, swRate, window)
      [] OTHER -> GCRAAllow(m, lc, key, n, gcraRate, burst)

\* the entries and lastClean of the limiter of the run
ActiveEntries ==
    CASE ActiveLimiter = "TokenBucket" -> buckets
      [] ActiveLimiter = "SlidingWindow" -> windows
      [] OTHER -> limiters

ActiveLastClean ==
    CASE ActiveLimiter = "TokenBucket" -> tbLastClean
      [] ActiveLimiter = "SlidingWindow" -> swLastClean
      [] OTHER -> gcraLastClean

\* how many calls of Allow(key), made one after the other at the instant n
\* on the entries m, are admitted before one is not
RECURSIVE FurtherAdmitted(_, _, _, _)
FurtherAdmitted(m, lc, key, n) ==
    LET r == AllowOf(m, lc, key, n)
    IN IF r.ret.allowed THEN 1 + FurtherAdmitted(r.entries, r.lastClean, key, n) ELSE 0

\* the answers of Allow(key) called at the instants ats on the entries m
\* with the sweep disabled: lastClean is the instant of the call, so the
\* test now.Sub(l.lastClean) > l.cleanupInt fails every time.  Without the
\* sweep a call touches no entry but its key's.
RECURSIVE WithoutSweep(_, _, _)
WithoutSweep(m, key, ats) ==
    IF ats = <<>> THEN <<>>
    ELSE LET r == AllowOf(m, Head(ats), key, Head(ats))
         IN <<[allowed |-> r.ret.allowed, panic |-> r.ret.panic]>>
               \o WithoutSweep(r.entries, key, Tail(ats))

(* ====================== RoundRobin.Pick (selector) ===================== *)
\* counter is an atomic.Int64; the model keeps the two's-complement
\* arithmetic and narrows the width to CounterBits bits, so that the whole
\* range of the counter can be walked through.
MinCounter == -(2 ^ (CounterBits - 1))
MaxCounter == 2 ^ (CounterBits - 1) - 1

\* the value of an int64 result in the width of the type
WrapCounter(x) == ((x - MinCounter) % (2 ^ CounterBits)) + MinCounter

CounterAdd_twice(c, d) == WrapCounter(c + 2 * d)

\* r.counter.Add(d): the new value
CounterAdd(c, d) == WrapCounter(c + d)

\* count % int64(len(nodes)): the remainder has the sign of count
RoundRobinIndex(count, n) == count - n * TruncDiv(count, n)

\* nodes[i]: the element, or the index-out-of-range panic
InRange(i, n) == 0 <= i /\ i < n

\* an entry of the history of Picks
PickEntry(l, count) ==
    [list |-> l, count |-> count, idx |-> 0, node |-> NoNode, panic |-> FALSE, done |-> FALSE]

\* the lists handed to the balancer: every node at most once
DistinctNodeLists ==
    {l \in NodeLists : \A i, j \in 1..Len(l) : l[i] = l[j] => i = j}

\* &RoundRobin{}, and the list the callers are given first
InitRoundRobin ==
    /\ NoTraffic
    /\ NoRetry /\ NoSelector /\ NoWeightedRandom /\ NoChain /\ NoLimit /\ NoIPRateLimiter
    /\ rrCounter = 0
    /\ rrLists \in {<<l>> : l \in DistinctNodeLists}
    /\ rrpc = [p \in Pickers |-> "idle"]
    /\ rrArg = [p \in Pickers |-> <<>>]
    /\ rrCount = [p \in Pickers |-> 0]
    /\ rrRes = [p \in Pickers |-> NoAvailable]
    /\ rrLog = <<>> /\ rrPos = [p \in Pickers |-> 0] /\ rrStarted = 0

\* Selector.Update: from now on the callers are given the list l; the
\* balancer is not touched
RoundRobinUpdate(l) ==
    /\ Len(rrLists) <= MaxRRUpdates
    /\ rrLists' = Append(rrLists, l)
    /\ UNCHANGED <<rrrest, now, rrCounter, rrpc, rrArg, rrCount, rrRes, rrLog, rrPos, rrStarted>>

\* Pick(ctx, nodes) is entered with the current list; an empty list returns
\* Node{}, ErrNoAvailable at once
RoundRobinPickBegin(p) ==
    /\ rrpc[p] = "idle"
    /\ rrStarted < MaxPicks
    /\ rrStarted' = rrStarted + 1
    /\ rrArg' = [rrArg EXCEPT ![p] = rrLists[Len(rrLists)]]
    /\ IF IsEmpty(rrLists[Len(rrLists)])
       THEN /\ rrRes' = [rrRes EXCEPT ![p] = NoAvailable]
            /\ rrpc' = rrpc
       ELSE /\ rrRes' = rrRes
            /\ rrpc' = [rrpc EXCEPT ![p] = "add"]
    /\ UNCHANGED <<rrrest, now, rrCounter, rrLists, rrCount, rrLog, rrPos>>

\* count := r.counter.Add(1)
RoundRobinAdd(p) ==
    /\ rrpc[p] = "add"
    /\ rrCounter' = CounterAdd(rrCounter, 1)
    /\ rrCount' = [rrCount EXCEPT ![p] = rrCounter']
    /\ rrLog' = Append(rrLog, PickEntry(rrArg[p], rrCounter'))
    /\ rrPos' = [rrPos EXCEPT ![p] = Len(rrLog) + 1]
    /\ rrpc' = [rrpc EXCEPT ![p] = "index"]
    /\ UNCHANGED <<rrrest, now, rrLists, rrArg, rrRes, rrStarted>>

\* return nodes[count%int64(len(nodes))], nil
RoundRobinReturn(p) ==
    /\ rrpc[p] = "index"
    /\ LET i == RoundRobinIndex(rrCount[p], Len(rrArg[p]))
           ok == InRange(i, Len(rrArg[p]))
           n == IF ok THEN rrArg[p][i + 1] ELSE NoNode
       IN /\ rrRes' = [rrRes EXCEPT ![p] =
                          IF ok THEN [node |-> n, err |-> "nil"]
                                ELSE [node |-> NoNode, err |-> "panic"]]
          /\ rrLog' = [rrLog EXCEPT ![rrPos[p]] =
                          [@ EXCEPT !.idx = i, !.node = n, !.panic = ~ok, !.done = TRUE]]
    /\ rrpc' = [rrpc EXCEPT ![p] = "idle"]
    /\ UNCHANGED <<rrrest, now, rrCounter, rrLists, rrArg, rrCount, rrPos, rrStarted>>

NextRoundRobin ==
    \/ \E l \in DistinctNodeLists : RoundRobinUpdate(l)
    \/ \E p \in Pickers : RoundRobinPickBegin(p)
    \/ \E p \in Pickers : RoundRobinAdd(p)
    \/ \E p \in Pickers : RoundRobinReturn(p)

SpecRoundRobin == InitRoundRobin /\ [][NextRoundRobin]_vars

\* a RoundRobin whose counter is about to reach the largest value of its
\* type, after MaxCounter - 1 or MaxCounter Picks of callers that have all
\* returned; the histories start here
InitRoundRobinWrap ==
    /\ NoTraffic
    /\ NoRetry /\ NoSelector /\ NoWeightedRandom /\ NoChain /\ NoLimit /\ NoIPRateLimiter
    /\ rrCounter \in {MaxCounter - 1, MaxCounter}
    /\ rrLists \in {<<l>> : l \in DistinctNodeLists}
    /\ rrpc = [p \in Pickers |-> "idle"]
    /\ rrArg = [p \in Pickers |-> <<>>]
    /\ rrCount = [p \in Pickers |-> 0]
    /\ rrRes = [p \in Pickers |-> NoAvailable]
    /\ rrLog = <<>> /\ rrPos = [p \in Pickers |-> 0] /\ rrStarted = 0

SpecRoundRobinWrap == InitRoundRobinWrap /\ [][NextRoundRobin]_vars

(* ================== IPRateLimiter.Allow (ratelimit) ==================== *)
IPRates == {1, 10}

\* variant: the map never has the entry
Exists_never(m, ip) == FALSE

\* limiter, exists := l.limiters[ip]
Exists(m, ip) == m[ip] # 0

\* NewTokenBucket(rate, capacity) at clock value n; tokens are counted in
\* 1/Second of a token, as in the token bucket of tracing
NewTokenBucket(cap, n) == [tokens |-> cap, lastTokens |-> n, mu |-> 0]

\* the body of TokenBucket.Allow at clock value n: the bucket afterwards and
\* the answer
BucketAllow(b, n, rate, cap) ==
    LET elapsed == n - b.lastTokens
        sum == b.tokens + elapsed * rate
        tok == IF cap < sum THEN cap ELSE sum
        ok == ~(tok < Second)
    IN [bucket |-> [b EXCEPT !.tokens = IF ok THEN tok - Second ELSE tok,
                             !.lastTokens = n],
        ok |-> ok]

\* the answers of TokenBucket.Allow called one call after the other at the
\* clock values ats, on a bucket in state b
RECURSIVE SequentialAllow(_, _, _, _)
SequentialAllow(b, ats, rate, cap) ==
    IF ats = <<>> THEN <<>>
    ELSE LET r == BucketAllow(b, Head(ats), rate, cap)
         IN <<r.ok>> \o SequentialAllow(r.bucket, Tail(ats), rate, cap)

\* NewIPRateLimiter(rate, capacity)
InitIPRateLimiter ==
    /\ NoTraffic
    /\ NoRetry /\ NoSelector /\ NoWeightedRandom /\ NoChain /\ NoLimit /\ NoRoundRobin
    /\ ipRate \in IPRates
    /\ ipCapacity \in 1..MaxCapacity
    /\ ipLimiters = [ip \in ClientIPs \ {""} |-> 0]
    /\ ipBuckets = <<>> /\ ipMu = 0
    /\ ippc = [c \in IPCallers |-> "idle"]
    /\ ipArg = [c \in IPCallers |-> ""]
    /\ ipRef = [c \in IPCallers |-> 0]
    /\ ipRes = [c \in IPCallers |-> TRUE]
    /\ ipLog = [ip \in ClientIPs \ {""} |-> <<>>]
    /\ ipStarted = 0

\* Allow(ctx) is entered: ip := getClientIP(ctx); without an address the
\* call returns true at once
IPAllowBegin(c, ip) ==
    /\ ippc[c] = "idle"
    /\ ipStarted < MaxIPCalls
    /\ ipStarted' = ipStarted + 1
    /\ ipArg' = [ipArg EXCEPT ![c] = ip]
    /\ IF ip = ""
       THEN /\ ipRes' = [ipRes EXCEPT ![c] = TRUE]
            /\ ippc' = ippc
       ELSE /\ ipRes' = ipRes
            /\ ippc' = [ippc EXCEPT ![c] = "lock"]
    /\ UNCHANGED <<iprest, now, ipRate, ipCapacity, ipLimiters, ipBuckets, ipMu, ipRef, ipLog>>

\* l.mu.Lock()
IPAllowLock(c) ==
    /\ ippc[c] = "lock"
    /\ ipMu = 0
    /\ ipMu' = c
    /\ ippc' = [ippc EXCEPT ![c] = "limiters"]
    /\ UNCHANGED <<iprest, now, ipRate, ipCapacity, ipLimiters, ipBuckets, ipArg, ipRef, ipRes, ipLog, ipStarted>>

\* the look-up in l.limiters, the new TokenBucket when there is none, and
\* l.mu.Unlock()
IPAllowGetOrCreate(c) ==
    /\ ippc[c] = "limiters"
    /\ IF Exists(ipLimiters, ipArg[c])
       THEN /\ ipRef' = [ipRef EXCEPT ![c] = ipLimiters[ipArg[c]]]
            /\ UNCHANGED <<ipLimiters, ipBuckets>>
       ELSE /\ ipBuckets' = Append(ipBuckets, NewTokenBucket(ipCapacity * Second, now))
            /\ ipLimiters' = [ipLimiters EXCEPT ![ipArg[c]] = Len(ipBuckets) + 1]
            /\ ipRef' = [ipRef EXCEPT ![c] = Len(ipBuckets) + 1]
    /\ ipMu' = 0
    /\ ippc' = [ippc EXCEPT ![c] = "bucketLock"]
    /\ UNCHANGED <<iprest, now, ipRate, ipCapacity, ipArg, ipRes, ipLog, ipStarted>>

\* limiter.Allow(ctx): l.mu.Lock() of the TokenBucket
TokenBucketLock(c) ==
    /\ ippc[c] = "bucketLock"
    /\ ipBuckets[ipRef[c]].mu = 0
    /\ ipBuckets' = [ipBuckets EXCEPT ![ipRef[c]].mu = c]
    /\ ippc' = [ippc EXCEPT ![c] = "bucket"]
    /\ UNCHANGED <<iprest, now, ipRate, ipCapacity, ipLimiters, ipMu, ipArg, ipRef, ipRes, ipLog, ipStarted>>

\* limiter.Allow(ctx): the body, from time.Now() to the deferred Unlock
TokenBucketAllowBody(c) ==
    /\ ippc[c] = "bucket"
    /\ LET r == BucketAllow(ipBuckets[ipRef[c]], now, ipRate, ipCapacity * Second)
       IN /\ ipBuckets' = [ipBuckets EXCEPT ![ipRef[c]] = [r.bucket EXCEPT !.mu = 0]]
          /\ ipRes' = [ipRes EXCEPT ![c] = r.ok]
          /\ ipLog' = [ipLog EXCEPT ![ipArg[c]] =
                          Append(@, [at |-> now, allowed |-> r.ok, bucket |-> ipRef[c]])]
    /\ ippc' = [ippc EXCEPT ![c] = "idle"]
    /\ UNCHANGED <<iprest, now, ipRate, ipCapacity, ipLimiters, ipMu, ipArg, ipRef, ipStarted>>

IPSteps == {1, Second \div ipRate}

NextIPRateLimiter ==
    \/ \E c \in IPCallers, ip \in ClientIPs : IPAllowBegin(c, ip)
    \/ \E c \in IPCallers : IPAllowLock(c)
    \/ \E c \in IPCallers : IPAllowGetOrCreate(c)
    \/ \E c \in IPCallers : TokenBucketLock(c)
    \/ \E c \in IPCallers : TokenBucketAllowBody(c)
    \/ \E d \in IPSteps : Advance(d)

SpecIPRateLimiter == InitIPRateLimiter /\ [][NextIPRateLimiter]_vars

TypeOK ==
    /\ state \in {StateClosed, StateOpen, StateHalfOpen}
    /\ failures \in 0..MaxCalls
    /\ successes \in 0..MaxMaxRequests
    /\ lastFailure \in {ZeroTime} \cup 0..MaxTime
    /\ now >= 0

(* ===================== properties of the breaker ======================= *)

\* C1 (as stated): the breaker moves Closed -> Open only when `threshold`
\* failures have been registered while Closed with no success registered
\* between them.
C1_OpensOnlyOnConsecutiveFailures ==
    [][(state = StateClosed /\ state' = StateOpen) => consec' >= threshold]_vars

\* C2: from a fresh breaker, fewer than `threshold` failed Execute calls
\* (and nothing else) leave it Closed, the threshold-th leaves it Open, and an
\* Execute that then finds less than `timeout` elapsed since the last failure
\* returns the CircuitOpen error without invoking the handler.
C2_ThresholdFailuresOpen ==
    [][ /\ (freshFails' >= 0 /\ freshFails' < threshold) => state' = StateClosed
        /\ (freshFails' = threshold /\ freshFails' # freshFails) => state' = StateOpen
        /\ \A p \in Callers :
              ( /\ freshFails >= threshold
                /\ pc[p] = "checkTimeout" /\ pc'[p] # "checkTimeout"
                /\ Since(lastFailure, now) < timeout )
              => (pc'[p] = "idle" /\ res'[p] = CircuitOpen /\ inv'[p] = 0)
      ]_vars

C2_Witness ==
    /\ threshold = 2
    /\ freshFails = 2
    /\ state = StateOpen
    /\ \E p \in Callers : pc[p] = "idle" /\ res[p] = CircuitOpen

\* C3 (as stated): during one half-open episode AllowRequest returns true at
\* most `maxRequests` times.
C3_HalfOpenAdmitsAtMostMaxRequests ==
    state = StateHalfOpen => epAdmits <= maxRequests

\* C4: an AllowRequest that saw Open returns false (Execute: CircuitOpen,
\* breaker untouched) when now - lastFailure < timeout and otherwise goes on
\* to the transition; its locked section turns Open into HalfOpen with
\* successes = 0 and returns true; and no other step (no timer, no
\* registration) ever takes the state out of Open.
C4_OpenLeftOnlyLazily ==
    [][ /\ \A p \in Callers :
              (pc[p] = "checkTimeout" /\ pc'[p] # "checkTimeout") =>
                 IF Since(lastFailure, now) < timeout
                 THEN pc'[p] = "idle" /\ res'[p] = CircuitOpen /\ UNCHANGED cbvars
                 ELSE pc'[p] = "toHalfOpen" /\ UNCHANGED cbvars
        /\ \A p \in Callers :
              (pc[p] = "toHalfOpen" /\ pc'[p] # "toHalfOpen" /\ state = StateOpen) =>
                 (state' = StateHalfOpen /\ successes' = 0 /\ pc'[p] = "handler")
        /\ (state = StateOpen /\ state' # StateOpen) =>
              /\ state' = StateHalfOpen
              /\ \E p \in Callers : pc[p] = "toHalfOpen" /\ pc'[p] = "handler"
      ]_vars

C4_Witness ==
    /\ state = StateHalfOpen
    /\ successes = 0
    /\ \E p \in Callers : pc[p] = "handler"
    /\ \E q \in Callers : pc[q] = "idle" /\ res[q] = CircuitOpen

\* C5: while HalfOpen the success count equals the successes registered in
\* the episode and stays below maxRequests; the registration that brings the
\* episode's successes to maxRequests makes the state Closed with failures
\* and successes both 0.
C5_HalfOpenCloses ==
    [][ /\ (state' = StateHalfOpen) => (successes' = epSucc' /\ epSucc' < maxRequests)
        /\ (state = StateHalfOpen /\ epSucc' # epSucc /\ epSucc' = maxRequests) =>
              (state' = StateClosed /\ failures' = 0 /\ successes' = 0)
      ]_vars

C5_Witness ==
    /\ maxRequests = 2
    /\ epSucc = 2
    /\ state = StateClosed
    /\ failures = 0
    /\ successes = 0

\* C6: a failure registered while HalfOpen moves the state to Open in that
\* same step and leaves successes = 0, whatever the success count was.
C6_HalfOpenFailureReopens ==
    [][ \A p \in Callers :
           ( /\ pc[p] = "register" /\ pc'[p] = "idle"
             /\ hres[p].err # "nil"
             /\ state = StateHalfOpen )
           => (state' = StateOpen /\ successes' = 0)
      ]_vars

C6_Witness ==
    /\ maxRequests = 2
    /\ epSucc = 1
    /\ state = StateOpen
    /\ successes = 0

\* C7: Execute invokes the handler only after AllowRequest returned true; a
\* denied Execute returns CircuitOpen with no invocation, no registration and
\* the breaker fields unchanged; an admitted Execute has invoked the handler
\* exactly once, registers exactly one outcome (a failure iff err is non-nil)
\* and returns the handler's (resp, err).
C7_ExecuteContract ==
    [][ \A p \in Callers :
          /\ (pc[p] \in {"checkTimeout", "checkHalfOpen"} /\ pc'[p] = "idle") =>
                /\ res'[p] = CircuitOpen
                /\ inv'[p] = 0 /\ regS'[p] = 0 /\ regF'[p] = 0
                /\ UNCHANGED cbvars
          /\ (pc[p] = "register" /\ pc'[p] = "idle") =>
                /\ inv[p] = 1
                /\ res'[p] = hres[p]
                /\ regS'[p] + regF'[p] = 1
                /\ (regF'[p] = 1) <=> (hres[p].err # "nil")
          /\ (inv'[p] # inv[p] /\ inv'[p] > 0) => pc[p] = "handler"
          /\ (pc'[p] = "idle" /\ pc[p] # "idle") => pc[p] \in {"checkTimeout", "checkHalfOpen", "register"}
      ]_vars

C7_Witness ==
    \E p, q \in Callers :
        /\ pc[p] = "idle" /\ res[p] = CircuitOpen /\ inv[p] = 0
        /\ pc[q] = "idle" /\ res[q] = [resp |-> "r", err |-> "e"] /\ regF[q] = 1

(* ===================== properties of the limiters ====================== *)

\* C8 (as stated): for one key of a Sliding Window limiter, the first `rate`
\* calls made within one window are all admitted, the next call within that
\* same window is denied, and a call made after the full window has elapsed
\* since every earlier call on the key is admitted.
C8_SlidingWindowRecovers ==
    \A k \in Keys :
        LET h == hist[k]
        IN /\ \A i \in 1..Len(h) :
                 (i <= swRate /\ h[i].at - h[1].at < window) => h[i].allowed
           /\ (Len(h) > swRate /\ h[swRate + 1].at - h[1].at < window)
                 => ~h[swRate + 1].allowed
           /\ \A i \in 1..Len(h) :
                 (\A j \in 1..(i - 1) : h[i].at - h[j].at > window) => h[i].allowed

C10_GCRAInitialBurst ==
    \A k \in Keys :
        LET h == hist[k]
        IN \A i \in 1..Len(h) :
              ( /\ i <= burst
                /\ h[i].at - h[1].at < Increment(gcraRate)
                /\ \A j \in 1..i : ~h[j].panic )
              => h[i].allowed

(* ======================== properties of Retry ========================== *)

\* C11: with attempts = N >= 1 and a predicate that retries every error, the
\* handler is never invoked more than N times nor again after a success; a
\* call that returns what the handler returned (the context was not taken in
\* a wait) returns the last invocation's result, and that result is either a
\* success after k < N failures (k + 1 invocations) or the N-th error after
\* exactly N invocations.
C11_RetryInvocationCount ==
    (retryIf = "every" /\ attempts >= 1) =>
        /\ Len(outs) <= attempts
        /\ \A i \in 1..(Len(outs) - 1) : outs[i].err # "nil"
        /\ (rpc = "done" /\ retryRes # ContextCanceled) =>
              /\ Len(outs) >= 1
              /\ retryRes = outs[Len(outs)]
              /\ (retryRes.err = "nil" \/ Len(outs) = attempts)

\* N - 1 failures and then a success: N invocations and the success returned
C11_Witness ==
    /\ retryIf = "every" /\ attempts >= 2
    /\ rpc = "done"
    /\ Len(outs) = attempts
    /\ retryRes.err = "nil"
    /\ \A i \in 1..(Len(outs) - 1) : outs[i].err # "nil"

\* C12: when the context is canceled while Retry waits between two attempts
\* (the timer has not fired), Retry returns the cancellation error at the
\* instant of the cancellation, and the handler is not invoked again.
C12_CancelDuringWait ==
    cancelInv >= 0 =>
        /\ rpc \in {"wait", "done"}
        /\ Len(outs) = cancelInv
        /\ now = cancelAt
        /\ rpc = "done" => (retryRes = ContextCanceled /\ retAt = cancelAt)

\* a cancellation in the middle of a wait, answered before the timer's instant
C12_Witness ==
    /\ cancelInv >= 1
    /\ rpc = "done"
    /\ retryRes = ContextCanceled
    /\ retAt < timerAt
    /\ retAt > timerAt - delay

\* C13: with the default predicate, a handler result that is CircuitOpen or
\* RateLimited ends the call: it is the last invocation, and it is what
\* Retry returns.
C13_RejectionsNotRetried ==
    retryIf = "default" =>
        \A i \in 1..Len(outs) :
            outs[i] \in {CircuitOpen, RateLimited} =>
                /\ i = Len(outs)
                /\ rpc = "done"
                /\ retryRes = outs[i]

(* ====================== properties of the Selector ===================== *)

\* C14: a Select whose candidate list is empty, or whose list is emptied by
\* the filters up to some step, returns Node{}, ErrNoAvailable, and the
\* balancer is not invoked.  (A header that points past its array is C15's
\* subject; what Select does with one is not defined.)
C14_EmptyFailsFast ==
    (spc = "idle" /\ selects >= 1 /\ ~Corrupt(snap)) =>
        LET v == View(snap)
            EmptiedBy(j) == \A i \in 1..Len(v) : \E k \in 1..j : v[i] \notin filters[k]
        IN (Len(v) = 0 \/ \E j \in 1..Len(filters) : EmptiedBy(j)) =>
              (selRes = NoAvailable /\ ~picked)

\* a non-empty list emptied by a filter
C14_Witness ==
    /\ spc = "idle" /\ selects >= 1
    /\ ~Corrupt(snap)
    /\ snap.len >= 1
    /\ Len(filters) >= 1
    /\ \A i \in 1..snap.len : snap.arr[i] \notin filters[1]
    /\ selRes = NoAvailable
    /\ ~picked

\* C15: the list a Select balances over is one of the complete lists the
\* candidate set held while the Select ran (seen); when no Update overlapped
\* the Select, that is the list of the last Update that had returned, alone.
C15_UpdateIsAtomic ==
    (spc = "idle" /\ selects >= 1) =>
        /\ ~Corrupt(snap)
        /\ View(snap) \in seen
        /\ quiet => seen = {View(snap)}

\* C16: when the list given to Weighted-Random holds a node of positive
\* weight, the node returned has a positive weight, whatever the weights and
\* whatever the draw.
C16_WeightedNeverPicksNonPositive ==
    (wpick # 0 /\ \E i \in 1..Len(wnodes) : wnodes[i] > 0) => wnodes[wpick] > 0

(* ======================== properties of Chain ========================== *)

\* C17: a call of Chain(m1, ..., mN)(h) runs the part of m1 before next,
\* then m2's, ..., then mN's, then h, then the part of mN after next, ...,
\* then m1's; and the caller gets the response h returned.
C17_ChainOrder ==
    cpc = "done" =>
        LET n == Len(mws)
        IN /\ Len(trace) = 2 * n + 1
           /\ \A i \in 1..n : trace[i] = <<"before", mws[i]>>
           /\ trace[n + 1] = <<"handler", "h">>
           /\ \A i \in 1..n : trace[n + 1 + i] = <<"after", mws[n + 1 - i]>>
           /\ chRes.resp = hout.resp

\* three different middlewares around a handler that returned a response
C17_Witness ==
    /\ cpc = "done"
    /\ mws = <<"m1", "m2", "m3">>
    /\ Len(trace) = 7
    /\ hout.err = "nil"
    /\ chRes.resp = hout.resp

C20_InfoIsRemainingQuota ==
    \A k \in Keys :
        LET h == hist[k]
        IN (Len(h) >= 1 /\ h[Len(h)].allowed /\ h[Len(h)].at = now) =>
              h[Len(h)].info = FurtherAdmitted(ActiveEntries, ActiveLastClean, k, now)

(* ============ properties of the breaker's synchronisation ============== *)

\* C21 (as stated): AllowRequest decides on one consistent state of the
\* breaker: the step that moves Open to HalfOpen is taken only when, in the
\* state it acts on, `timeout` has elapsed since lastFailure.
C21_AllowRequestAtomic ==
    [][(state = StateOpen /\ state' = StateHalfOpen) =>
          TimeoutElapsed(lastFailure, now, timeout)]_vars

(* =================== properties of the balancers ======================= *)

\* C22: the value Add returns to the k-th Pick is k (one shared counter
\* that goes up by exactly 1 per Pick, whatever the interleaving and
\* whatever Update did in between); a Pick returns nodes[count mod
\* len(nodes)]; and any n consecutive Picks on the same list of n nodes
\* return the n places of the list, each once.  (Stated of the counter up to
\* the largest value of its type.)
C22_RoundRobinCycle ==
    /\ rrCounter = WrapCounter(Len(rrLog))
    /\ \A k \in 1..Len(rrLog) :
          LET e == rrLog[k]
              n == Len(e.list)
          IN /\ e.count = WrapCounter(k)
             /\ (e.done /\ k <= MaxCounter) =>
                   /\ ~e.panic
                   /\ e.idx = k % n
                   /\ e.node = e.list[e.idx + 1]
             /\ ( /\ k + n - 1 <= Len(rrLog)
                  /\ k + n - 1 <= MaxCounter
                  /\ \A j \in k..(k + n - 1) : rrLog[j].done /\ rrLog[j].list = e.list )
                => {rrLog[j].idx : j \in k..(k + n - 1)} = 0..(n - 1)

\* two Picks of different goroutines that overlapped, an Update between
\* two Picks, and a full round on a list of two nodes afterwards
C22_Witness ==
    /\ Len(rrLog) >= 3
    /\ Len(rrLists) >= 2
    /\ rrLog[1].list # rrLog[2].list
    /\ Len(rrLog[2].list) = 2
    /\ rrLog[3].list = rrLog[2].list
    /\ rrLog[2].done /\ rrLog[3].done
    /\ rrLog[2].node # rrLog[3].node
    /\ rrPos[1] # 0 /\ rrPos[2] # 0

\* C23 (as stated): when totalWeight > 0, every node of positive weight is
\* returned for exactly Weight of the draws nextRandom can make, a node of
\* weight <= 0 for none of them (so the walk always ends inside the loop),
\* and the draws are the totalWeight values 0 .. totalWeight - 1, the sum of
\* the positive weights.
C23_WeightedShares ==
    UsesWeights(totalWeight(wnodes)) =>
        /\ \A i \in 1..Len(wnodes) :
              Cardinality({d \in WeightedDraws(wnodes) : WeightedPickIndex(wnodes, d) = i})
                 = IF wnodes[i] > 0 THEN wnodes[i] ELSE 0
        /\ wpick # 0 => (wnodes[wpick] > 0 /\ wdraw \in WeightedDraws(wnodes))

(* ===================== properties of Retry, continued ================== *)

\* C24: the invocation for which the predicate answers "do not retry", or
\* which is the attempts-th, is the last one, and the call returns at once
\* with exactly what it returned; a call that returns a handler outcome
\* returns the outcome of the last invocation, never an earlier one.
C24_LastOutcomeSurfaced ==
    LET Retries(o) == IF retryIf = "default" THEN defaultRetryIf(o) ELSE retryEveryError(o)
    IN /\ \A i \in 1..Len(outs) :
             (~Retries(outs[i]) \/ i >= attempts) =>
                (i = Len(outs) /\ rpc = "done" /\ retryRes = outs[i])
       /\ (rpc = "done" /\ Len(outs) >= 1 /\ retryRes # ContextCanceled) =>
             retryRes = outs[Len(outs)]

\* an error that was retried, then an outcome the default predicate does
\* not retry, returned with attempts to spare
C24_Witness ==
    /\ retryIf = "default"
    /\ rpc = "done"
    /\ Len(outs) = 2 /\ attempts = 3
    /\ outs[1].err = "plain"
    /\ outs[2] = RateLimited
    /\ retryRes = RateLimited

\* C25 (as stated): no wait between two attempts of a Retry call is longer
\* than maxDelay, whatever baseDelay, backoff and maxDelay are.
C25_MaxDelayCaps ==
    \A i \in 1..Len(waits) : waits[i] <= maxDelay

(* ================= properties of the limiters, continued =============== *)

\* C26 (as stated): the entries of a limiter change only in Allow; a sweep
\* happens only in an Allow made more than cleanupInt after the previous
\* sweep; a sweep removes another key's entry exactly when its lastUpdate is
\* more than 30 minutes old; and an entry whose key was last given to Allow
\* within the last 30 minutes is not removed.
C26_SweepOnlyIdleEntries ==
    [][ LET called == {k \in Keys : hist'[k] # hist[k]}
            swept == ActiveLastClean' # ActiveLastClean
        IN /\ called = {} => (ActiveEntries' = ActiveEntries /\ ~swept)
           /\ swept => (ActiveLastClean' = now /\ now - ActiveLastClean > cleanupInt)
           /\ \A k \in (DOMAIN ActiveEntries) \ called :
                 /\ k \notin DOMAIN ActiveEntries' =>
                       /\ swept
                       /\ ActiveEntries[k].lastUpdate < now - 30 * Minute
                       /\ hist[k][Len(hist[k])].at < now - 30 * Minute
                 /\ (swept /\ ActiveEntries[k].lastUpdate < now - 30 * Minute) =>
                       k \notin DOMAIN ActiveEntries'
      ]_vars

(* ================ properties of the breaker's observer ================= *)

\* C27: every change of the breaker's state starts exactly one goroutine,
\* which is given the state before and the state after, two different
\* states; no goroutine is started without a change of state; the callback
\* is called at most once by a goroutine, and every goroutine started does
\* call it (again and again there is a moment when all of them have).
C27_ObserverOncePerTransition ==
    /\ [][ /\ state' # state =>
                /\ Len(spawned') = Len(spawned) + 1
                /\ spawned'[Len(spawned')] = [from |-> state, to |-> state', runs |-> 0]
           /\ state' = state => Len(spawned') = Len(spawned)
           /\ \A i \in 1..Len(spawned) :
                 /\ spawned'[i].from = spawned[i].from /\ spawned'[i].to = spawned[i].to
                 /\ spawned'[i].runs >= spawned[i].runs
         ]_vars
    /\ [](\A i \in 1..Len(spawned) : spawned[i].from # spawned[i].to /\ spawned[i].runs <= 1)
    /\ []<>(\A i \in 1..Len(spawned) : spawned[i].runs = 1)

\* the breaker went on, through two more transitions, while the callback of
\* the first transition had not run yet
C27_Witness ==
    /\ Len(spawned) >= 3
    /\ spawned[1].runs = 0
    /\ spawned[1] = [from |-> StateClosed, to |-> StateOpen, runs |-> 0]
    /\ spawned[2].to = StateHalfOpen
    /\ state = StateClosed

\* C28 (as stated): for every key of a Sliding Window limiter and every
\* interval of length `window`, at most `rate` of the calls made in the
\* interval are admitted.
C28_SlidingWindowNeverOverAdmits ==
    \A k \in Keys :
        LET h == hist[k]
        IN \A i \in 1..Len(h) :
              Cardinality({j \in i..Len(h) : h[j].allowed /\ h[j].at - h[i].at < window})
                 <= swRate

\* C29 (as stated): the integer returned by a denying Allow(key) is a wait
\* in milliseconds, not negative, after which the key is admitted: when the
\* next call on the key is made exactly that long after the denial, it is
\* admitted.
C29_DeniedWaitSuffices ==
    \A k \in Keys :
        LET h == hist[k]
        IN \A i \in 1..Len(h) :
              (~h[i].allowed /\ ~h[i].panic) =>
                 /\ h[i].info >= 0
                 /\ (i < Len(h) /\ h[i + 1].at = h[i].at + h[i].info * Millisecond)
                       => h[i + 1].allowed

(* ============ properties of the limiters under concurrency ============= *)

\* C30: whatever the interleaving of concurrent Allow calls, the answers
\* given for one key are those of TokenBucket.Allow called one call after
\* the other, in the order in which the calls held the bucket's lock and at
\* the clock values they read (so no more calls are admitted than in that
\* sequential run); all calls for one key work on one TokenBucket, and the
\* limiter holds no more buckets than keys with an entry.
C30_AllowSerialized ==
    /\ \A ip \in ClientIPs \ {""} :
          LET l == ipLog[ip]
          IN /\ [i \in 1..Len(l) |-> l[i].allowed]
                   = (IF l = <<>> THEN <<>>
                      ELSE SequentialAllow(NewTokenBucket(ipCapacity * Second, l[1].at),
                                           [i \in 1..Len(l) |-> l[i].at],
                                           ipRate, ipCapacity * Second))
             /\ \A i \in 1..Len(l) : l[i].bucket = ipLimiters[ip]
    /\ Len(ipBuckets) = Cardinality({ip \in ClientIPs \ {""} : ipLimiters[ip] # 0})
    /\ \A c \in IPCallers :
          ippc[c] \in {"bucketLock", "bucket"} => ipRef[c] = ipLimiters[ipArg[c]]

\* two goroutines are inside Allow for the same address at once, one
\* holding the bucket's lock and one waiting for it, when an earlier call
\* has taken the only token of the bucket
C30_Witness ==
    \E c, e \in IPCallers :
        /\ ippc[c] = "bucket" /\ ippc[e] = "bucketLock"
        /\ ipArg[c] = ipArg[e]
        /\ ipCapacity = 1
        /\ Len(ipLog[ipArg[c]]) = 1
        /\ ipLog[ipArg[c]][1].allowed
        /\ ipBuckets[ipRef[c]].tokens < Second

(* ================= properties of the Selector, continued =============== *)

\* C31 (as stated): Select never modifies the candidate set: whenever no
\* Update is under way, the stored list is element for element the list
\* given to the last Update that returned, whatever Selects ran since and
\* whatever the filters.
C31_SelectLeavesCandidates ==
    upc = "idle" => (~Corrupt(nodes) /\ View(nodes) = cur)

(* ================ properties of the limiters, numerical ================ *)

\* C32 (as stated): every call of GCRALimiter.Allow returns its pair; none
\* faults, whatever the rate and the burst.
C32_GCRANeverFaults ==
    \A k \in Keys : \A i \in 1..Len(hist[k]) : ~hist[k][i].panic

(* ================ properties of Retry, the attempts option ============= *)

\* C33 (as stated): a call through Retry that has returned invoked the
\* wrapped handler at least once, and returned the outcome of one of its
\* invocations or the cancellation error, whatever the value of attempts.
C33_HandlerInvokedAtLeastOnce ==
    rpc = "done" =>
        /\ Len(outs) >= 1
        /\ \/ retryRes = ContextCanceled
           \/ \E i \in 1..Len(outs) : retryRes = outs[i]

(* ============== properties of the breaker's Open period ================ *)

\* C34 (as stated): the instant the Open period is measured from is the
\* instant the breaker entered Open, and stays that instant for as long as
\* the breaker is Open: no outcome registered while Open moves it, so the
\* first AllowRequest made `timeout` after the opening finds the period
\* elapsed.
C34_OpenPeriodFromOpening ==
    [][/\ (state # StateOpen /\ state' = StateOpen) => lastFailure' = now
       /\ (state = StateOpen /\ state' = StateOpen) => lastFailure' = lastFailure]_vars

(* ================= invariants of the breaker's counters ================ *)

\* C35: in every reachable state, under every interleaving of the callers:
\* Closed implies 0 <= failures < threshold, HalfOpen implies
\* 0 <= successes < maxRequests, and successes = 0 outside HalfOpen.
C35_CounterInvariants ==
    /\ state = StateClosed => (0 <= failures /\ failures < threshold)
    /\ state = StateHalfOpen => (0 <= successes /\ successes < maxRequests)
    /\ state # StateHalfOpen => successes = 0

\* a HalfOpen episode with one success counted and one more needed, while
\* another call is about to register its outcome
C35_Witness ==
    /\ state = StateHalfOpen
    /\ maxRequests = 2
    /\ successes = 1
    /\ failures >= threshold
    /\ \E p \in Callers : pc[p] = "register"

(* =============== bounds of the Token Bucket's admissions =============== *)

\* C36: between any two calls on one key, the first and the last included,
\* the Token Bucket admits at most capacity + rate * T calls, T being the
\* time from the first to the last; and after every Allow the key's tokens
\* are within [0, capacity].  (Tokens are counted in 1/Second of a token and
\* the rate in such units per tick.  The bound is found to hold across
\* evictions as well.)
C36_TokenBucketBound ==
    /\ \A k \in Keys :
          LET h == hist[k]
          IN \A i \in 1..Len(h) : \A j \in i..Len(h) :
                \* with a rate of 1 at least, T >= Len(h) seconds allows Len(h) calls
                \/ h[j].at - h[i].at >= Len(h) * Second
                \/ Cardinality({m \in i..j : h[m].allowed}) * Second
                      <= capacity * Second + tbRate * (h[j].at - h[i].at)
    /\ \A k \in DOMAIN buckets :
          0 <= buckets[k].tokens /\ buckets[k].tokens <= capacity * Second

\* a key that took the whole capacity at once, was denied, and was admitted
\* again one token's time later: capacity + rate * T admissions exactly
C36_Witness ==
    \E k \in Keys :
        LET h == hist[k]
        IN /\ capacity = 2 /\ Len(h) = 4
           /\ h[1].allowed /\ h[2].allowed /\ ~h[3].allowed /\ h[4].allowed
           /\ h[2].at = h[1].at /\ h[3].at = h[1].at
           /\ tbRate * (h[4].at - h[1].at) = Second

(* ==================== the breaker recovers (liveness) ================== *)

\* C37: when every call made through Execute succeeds from the moment the
\* breaker opened, calls keep arriving and time advances, the breaker
\* reaches Closed.
C37_BreakerRecovers == <>(state = StateClosed)

\* the breaker is Closed again after a half-open episode of two successes
C37_Witness ==
    /\ state = StateClosed
    /\ failures = 0
    /\ maxRequests = 2 /\ epSucc = 2
    /\ lastFailure = 0 /\ now >= timeout

(* ==================== eviction and the decisions ======================= *)

\* C38 (as stated): the limiter answers every call as the same limiter with
\* the sweep disabled answers it: the admit/deny decisions of the calls made
\* on a key are those of the same calls at the same instants on a limiter
\* that never evicts.
C38_EvictionUnobservable ==
    \A k \in Keys :
        LET h == hist[k]
        IN [i \in 1..Len(h) |-> [allowed |-> h[i].allowed, panic |-> h[i].panic]]
              = WithoutSweep(EmptyMap, k, [i \in 1..Len(h) |-> h[i].at])

(* ======================= isolation of the keys ========================= *)

\* C39 (as stated): a call Allow(k) leaves the entry of every other key as
\* it is (no entry stays no entry, an entry keeps its fields), except that
\* it may remove the entry of a key that was not given to Allow for more
\* than 30 minutes.
C39_KeysIsolated ==
    [][ \A k \in Keys :
           hist'[k] # hist[k] =>
              \A j \in Keys \ {k} :
                 IF j \notin DOMAIN ActiveEntries
                 THEN j \notin DOMAIN ActiveEntries'
                 ELSE \/ /\ j \in DOMAIN ActiveEntries'
                         /\ ActiveEntries'[j] = ActiveEntries[j]
                      \/ /\ j \notin DOMAIN ActiveEntries'
                         /\ hist[j][Len(hist[j])].at < now - 30 * Minute
      ]_vars

(* ================== RoundRobin at the counter's wrap =================== *)

\* C40 (as stated): every Pick on a non-empty list returns a member of the
\* list and does not fault, whatever the value of the counter, before and
\* after it wraps around.
C40_RoundRobinAlwaysPicksMember ==
    \A k \in 1..Len(rrLog) :
        rrLog[k].done =>
           /\ ~rrLog[k].panic
           /\ \E i \in 1..Len(rrLog[k].list) : rrLog[k].node = rrLog[k].list[i]

=============================================================================
